---- MODULE Spec2Model ----
(***************************************************************************)
(* MoltGate x402 gateway: the protected middleware stack                   *)
(* (idempotency -> validateSignature -> replayProtection ->                *)
(* paymentRequired -> handler), the two TTL caches, the facilitator client *)
(* and the reverse-proxy handler, as a state machine.                      *)
(*                                                                         *)
(* Time is Date.now() counted in minutes.  Node runs one callback at a     *)
(* time: a request runs from its arrival to its first await (or to its     *)
(* response) without interleaving; `cur` names the request that holds the  *)
(* event loop.                                                             *)
(***************************************************************************)
EXTENDS Integers, Sequences, FiniteSets, TLC

\* ------------------------------------------------------------------ bounds
MaxReq == 2

MaxTime == 10

TickMin == 5

\* policies a registry on its own is given
MaxPolicies == 3

\* --------------------------------------------------------- wire encodings
\* A JSON text is a sequence of bytes.  Punctuation and digits are their
\* ASCII codes; every distinct string literal is one byte of the symbol
\* table (128 + its index), standing for the quoted string.
SymTab ==
  << "x402Version", "scheme", "network", "asset", "payTo", "amount", "nonce",
     "signature", "resource", "memo", "accepts", "maxAmountRequired",
     "description", "mimeType", "maxTimeoutSeconds", "txHash", "payer",
     "timestamp", "settled",
     "exact", "other-scheme", "stacks:2147483648", "stacks:1", "STX", "sBTC",
     "ST1PQHQKV0RJXZFY1DGX8MNSNYVE3VGZJSRTPGZGM", "ST2OTHER",
     "n1", "n2", "m1", "sig",
     "http://gw/v1/premium/echo", "http://gw/proxy/api/weather",
     "http://gw/proxy/api/summarize",
     "Premium echo endpoint", "Weather lookup", "Text summarization",
     "application/json", "0x0", "0xabc", "ST1MOCK000000000000000000000000000000000",
     "ST1PAYER", "a", "b", "a:b", "" >>

Sym(s) == 127 + (CHOOSE i \in 1..Len(SymTab) : SymTab[i] = s)

UnSym(b) == SymTab[b - 127]

IsSym(b) == b >= 128 /\ b - 127 <= Len(SymTab)

RECURSIVE Digits(_)
Digits(n) == IF n < 10 THEN <<48 + n>> ELSE Digits(n \div 10) \o <<48 + (n % 10)>>

\* JSON.stringify of a string / number / boolean
EncStr(s) == <<Sym(s)>>

EncNum(n) == Digits(n)

EncBool(b) == IF b THEN <<116>> ELSE <<102>>

EncField(k, bytes) == <<Sym(k), 58>> \o bytes

RECURSIVE JoinComma(_)
JoinComma(parts) ==
  IF Len(parts) = 0 THEN <<>>
  ELSE IF Len(parts) = 1 THEN parts[1]
  ELSE parts[1] \o <<44>> \o JoinComma(Tail(parts))

EncObj(fields) == <<123>> \o JoinComma(fields) \o <<125>>

EncArr(elems) == <<91>> \o JoinComma(elems) \o <<93>>

\* An optional value is <<>> (undefined) or <<v>>.
None == <<>>

Some(v) == <<v>>

IsSome(o) == Len(o) > 0

\* JSON.stringify leaves out a property whose value is undefined.
OptStr(k, o) == IF IsSome(o) THEN <<EncField(k, EncStr(o[1]))>> ELSE <<>>

\* --- JSON.parse over the same byte grammar
\* the value null (written n, as true and false are written t and f)
Null == "null"

ParseFail == [ok |-> FALSE, val |-> 0, next |-> 0]

RECURSIVE ParseDigits(_, _, _)
ParseDigits(bs, i, acc) ==
  IF i <= Len(bs) /\ bs[i] \in 48..57
    THEN ParseDigits(bs, i + 1, acc * 10 + (bs[i] - 48))
    ELSE [ok |-> TRUE, val |-> acc, next |-> i]

\* the characters of a quoted string up to its closing quote
RECURSIVE ParseChars(_, _, _)
ParseChars(bs, i, acc) ==
  IF i > Len(bs) \/ IsSym(bs[i]) THEN ParseFail
  ELSE IF bs[i] = 34 THEN [ok |-> TRUE, val |-> [dec |-> acc], next |-> i + 1]
  ELSE ParseChars(bs, i + 1, Append(acc, bs[i]))

RECURSIVE ParseValue(_, _), ParseMembers(_, _, _), ParseElems(_, _, _)
ParseValue(bs, i) ==
  IF i > Len(bs) THEN ParseFail
  ELSE IF IsSym(bs[i]) THEN [ok |-> TRUE, val |-> UnSym(bs[i]), next |-> i + 1]
  ELSE IF bs[i] \in 48..57 THEN ParseDigits(bs, i, 0)
  ELSE IF bs[i] = 34 THEN ParseChars(bs, i + 1, <<>>)
  ELSE IF bs[i] = 116 THEN [ok |-> TRUE, val |-> TRUE, next |-> i + 1]
  ELSE IF bs[i] = 102 THEN [ok |-> TRUE, val |-> FALSE, next |-> i + 1]
  ELSE IF bs[i] = 110 THEN [ok |-> TRUE, val |-> Null, next |-> i + 1]
  ELSE IF bs[i] = 123 THEN
    (IF i + 1 <= Len(bs) /\ bs[i + 1] = 125
       THEN [ok |-> TRUE, val |-> <<>>, next |-> i + 2]
       ELSE ParseMembers(bs, i + 1, <<>>))
  ELSE IF bs[i] = 91 THEN
    (IF i + 1 <= Len(bs) /\ bs[i + 1] = 93
       THEN [ok |-> TRUE, val |-> <<>>, next |-> i + 2]
       ELSE ParseElems(bs, i + 1, <<>>))
  ELSE ParseFail

\* members of an object from position i on; acc is the object read so far
ParseMembers(bs, i, acc) ==
  IF i + 1 > Len(bs) \/ ~IsSym(bs[i]) \/ bs[i + 1] # 58 THEN ParseFail
  ELSE LET v == ParseValue(bs, i + 2) IN
    IF ~v.ok \/ v.next > Len(bs) THEN ParseFail
    ELSE LET obj == (UnSym(bs[i]) :> v.val) @@ acc IN
      IF bs[v.next] = 125 THEN [ok |-> TRUE, val |-> obj, next |-> v.next + 1]
      ELSE IF bs[v.next] = 44 THEN ParseMembers(bs, v.next + 1, obj)
      ELSE ParseFail

ParseElems(bs, i, acc) ==
  LET v == ParseValue(bs, i) IN
    IF ~v.ok \/ v.next > Len(bs) THEN ParseFail
    ELSE LET arr == Append(acc, v.val) IN
      IF bs[v.next] = 93 THEN [ok |-> TRUE, val |-> arr, next |-> v.next + 1]
      ELSE IF bs[v.next] = 44 THEN ParseElems(bs, v.next + 1, arr)
      ELSE ParseFail

\* JSON.parse: the whole text must be one value, else it throws (<<>>).
JsonParse(bs) ==
  LET v == ParseValue(bs, 1) IN
    IF v.ok /\ v.next = Len(bs) + 1 THEN Some(v.val) ELSE None

\* the kind of value a JSON text writes, by its first byte
JsonKind(bs) ==
  IF bs[1] = 123 THEN "object"
  ELSE IF bs[1] = 91 THEN "array"
  ELSE IF bs[1] = 110 THEN "null"
  ELSE IF bs[1] \in {116, 102} THEN "boolean"
  ELSE IF bs[1] \in 48..57 THEN "number"
  ELSE "string"

\* --- base64: three bytes to four sextets, 64 is the '=' padding
Pad == 64

RECURSIVE Base64Encode(_)
Base64Encode(bs) ==
  IF Len(bs) = 0 THEN <<>>
  ELSE IF Len(bs) = 1 THEN
    << bs[1] \div 4, (bs[1] % 4) * 16, Pad, Pad >>
  ELSE IF Len(bs) = 2 THEN
    << bs[1] \div 4, (bs[1] % 4) * 16 + bs[2] \div 16, (bs[2] % 16) * 4, Pad >>
  ELSE
    << bs[1] \div 4, (bs[1] % 4) * 16 + bs[2] \div 16,
       (bs[2] % 16) * 4 + bs[3] \div 64, bs[3] % 64 >>
    \o Base64Encode(SubSeq(bs, 4, Len(bs)))

\* Buffer.from(raw, "base64") never throws: it reads sextets up to the first
\* padding character and drops an incomplete trailing group.
RECURSIVE Base64Decode(_)
Base64Decode(ss) ==
  IF Len(ss) < 2 \/ ss[1] = Pad \/ ss[2] = Pad THEN <<>>
  ELSE IF Len(ss) = 2 \/ ss[3] = Pad THEN
    << ss[1] * 4 + ss[2] \div 16 >>
  ELSE IF Len(ss) = 3 \/ ss[4] = Pad THEN
    << ss[1] * 4 + ss[2] \div 16, (ss[2] % 16) * 16 + ss[3] \div 4 >>
  ELSE
    << ss[1] * 4 + ss[2] \div 16, (ss[2] % 16) * 16 + ss[3] \div 4,
       (ss[3] % 4) * 64 + ss[4] >>
    \o Base64Decode(SubSeq(ss, 5, Len(ss)))

\* An amount string ("100000") is the record of its characters.
DecStr(n) == [dec |-> Digits(n)]

EncDec(d) == <<34>> \o d.dec \o <<34>>

\* the number a short run of decimal digits writes
RECURSIVE DigitsVal(_)
DigitsVal(cs) ==
  IF Len(cs) = 0 THEN 0
  ELSE 10 * DigitsVal(SubSeq(cs, 1, Len(cs) - 1)) + (cs[Len(cs)] - 48)

DecVal(d) == DigitsVal(d.dec)

\* ------------------------------------------------ configuration, policies
NETWORK == "stacks:2147483648"

PAY_TO == "ST1PQHQKV0RJXZFY1DGX8MNSNYVE3VGZJSRTPGZGM"

AMOUNT_MICROSTX == 100000

\* config.baseUrl followed by a policy path (`${base}${policy.path}`)
ResourceUrl(path) ==
  CASE path = "/v1/premium/echo" -> "http://gw/v1/premium/echo"
    [] path = "/proxy/api/weather" -> "http://gw/proxy/api/weather"
    [] path = "/proxy/api/summarize" -> "http://gw/proxy/api/summarize"

\* PolicyBuilder: the constructor's defaults and the fields build() returns
PolicyBuilder(path, method, amount, description) ==
  [ path |-> path, method |-> method, scheme |-> "exact",
    network |-> NETWORK, maxAmountRequired |-> DecStr(amount), asset |-> "STX",
    payTo |-> PAY_TO, description |-> description,
    mimeType |-> "application/json", maxTimeoutSeconds |-> 60 ]

\* engine.policies after the engine.add(...) of policies.ts
policies ==
  << PolicyBuilder("/v1/premium/echo", "GET", AMOUNT_MICROSTX, "Premium echo endpoint"),
     PolicyBuilder("/proxy/api/weather", "GET", 10, "Weather lookup"),
     PolicyBuilder("/proxy/api/summarize", "POST", 50, "Text summarization") >>

\* String.prototype.toUpperCase on the method names that occur
toUpperCase(m) ==
  CASE m \in {"GET", "get", "Get"} -> "GET"
    [] m \in {"POST", "post"} -> "POST"
    [] m \in {"HEAD", "head"} -> "HEAD"
    [] OTHER -> m

\* (mutant) a policy matches by its method alone
match_AnyPath(path, method) ==
  LET upper == toUpperCase(method)
      hits == { i \in 1..Len(policies) : policies[i].method = upper }
  IN IF hits = {} THEN None
     ELSE Some(policies[CHOOSE i \in hits : \A j \in hits : i <= j])

\* PolicyEngine.match: Array.find, the first policy with that path and method
match(path, method) ==
  LET upper == toUpperCase(method)
      hits == { i \in 1..Len(policies) :
                  policies[i].path = path /\ policies[i].method = upper }
  IN IF hits = {} THEN None
     ELSE Some(policies[CHOOSE i \in hits : \A j \in hits : i <= j])

findPolicy(path, method) == match(path, method)

\* (mutant) the offer names the configured default amount, not the policy's
buildAccept_DefaultAmount(policy) ==
  [ scheme |-> policy.scheme, network |-> policy.network,
    maxAmountRequired |-> DecStr(AMOUNT_MICROSTX),
    resource |-> ResourceUrl(policy.path), description |-> policy.description,
    mimeType |-> policy.mimeType, payTo |-> policy.payTo,
    maxTimeoutSeconds |-> policy.maxTimeoutSeconds, asset |-> policy.asset ]

buildAccept(policy) ==
  [ scheme |-> policy.scheme, network |-> policy.network,
    maxAmountRequired |-> policy.maxAmountRequired,
    resource |-> ResourceUrl(policy.path), description |-> policy.description,
    mimeType |-> policy.mimeType, payTo |-> policy.payTo,
    maxTimeoutSeconds |-> policy.maxTimeoutSeconds, asset |-> policy.asset ]

buildRequirements(accept) == [x402Version |-> 2, accepts |-> <<accept>>]

\* JSON.stringify, by the shape of the value
StringifyAccept(a) ==
  EncObj(<< EncField("scheme", EncStr(a.scheme)),
            EncField("network", EncStr(a.network)),
            EncField("maxAmountRequired", EncDec(a.maxAmountRequired)),
            EncField("resource", EncStr(a.resource)),
            EncField("description", EncStr(a.description)),
            EncField("mimeType", EncStr(a.mimeType)),
            EncField("payTo", EncStr(a.payTo)),
            EncField("maxTimeoutSeconds", EncNum(a.maxTimeoutSeconds)),
            EncField("asset", EncStr(a.asset)) >>)

StringifyRequirements(q) ==
  EncObj(<< EncField("x402Version", EncNum(q.x402Version)),
            EncField("accepts", EncArr([i \in 1..Len(q.accepts) |->
                                          StringifyAccept(q.accepts[i])])) >>)

\* (mutant) a receipt written without its txHash
StringifyReceipt_NoTxHash(c) ==
  EncObj(<< EncField("network", EncStr(c.network)),
            EncField("payer", EncStr(c.payer)),
            EncField("amount", EncDec(c.amount)),
            EncField("timestamp", EncNum(c.timestamp)),
            EncField("settled", EncBool(c.settled)) >>)

\* a receipt: txHash is optional, the other fields always present
StringifyReceipt(c) ==
  EncObj(OptStr("txHash", c.txHash)
         \o << EncField("network", EncStr(c.network)),
               EncField("payer", EncStr(c.payer)),
               EncField("amount", EncDec(c.amount)),
               EncField("timestamp", EncNum(c.timestamp)),
               EncField("settled", EncBool(c.settled)) >>)

\* the client's side: a PaymentPayload with an optional memo
StringifyPayload(p) ==
  EncObj(<< EncField("x402Version", EncNum(p.x402Version)),
            EncField("scheme", EncStr(p.scheme)),
            EncField("network", EncStr(p.network)),
            EncField("asset", EncStr(p.asset)),
            EncField("payTo", EncStr(p.payTo)),
            EncField("amount", EncDec(p.amount)),
            EncField("nonce", EncStr(p.nonce)),
            EncField("signature", EncStr(p.signature)),
            EncField("resource", EncStr(p.resource)) >>
         \o OptStr("memo", p.memo))

\* toBase64 of paymentRequired.ts: Buffer.from(JSON.stringify(obj)).toString("base64")
toBase64(json) == Base64Encode(json)

\* ------------------------------------------------------------ TTL cache
\* TtlCache.store: a function from the keys present to (value, expiresAt).
Without(store, key) == [k \in DOMAIN store \ {key} |-> store[k]]

\* (mutant) set() whose entries are expired from the start
TtlSet_Expired(store, key, value, ttlMs, t) ==
  [k \in DOMAIN store \cup {key} |->
     IF k = key THEN [value |-> value, expiresAt |-> t] ELSE store[k]]

TtlSet(store, key, value, ttlMs, t) ==
  [k \in DOMAIN store \cup {key} |->
     IF k = key THEN [value |-> value, expiresAt |-> t + ttlMs] ELSE store[k]]

\* (mutant) get() that still returns an entry at the instant it expires
TtlGet_AtExpiry(store, key, t) ==
  IF key \notin DOMAIN store THEN None
  ELSE IF t > store[key].expiresAt THEN None
  ELSE Some(store[key].value)

\* get: the value (if present and not expired) ...
TtlGet(store, key, t) ==
  IF key \notin DOMAIN store THEN None
  ELSE IF t >= store[key].expiresAt THEN None
  ELSE Some(store[key].value)

\* ... and the store it leaves (an expired entry is deleted by the read)
TtlGetStore(store, key, t) ==
  IF key \in DOMAIN store /\ t >= store[key].expiresAt
    THEN Without(store, key) ELSE store

\* (mutant) has() that finds no key
TtlHas_Never(store, key, t) == FALSE

TtlHas(store, key, t) == IsSome(TtlGet(store, key, t))

\* (mutant) a sweep that keeps an entry at the instant it expires
TtlSweep_AfterExpiry(store, t) ==
  [k \in {x \in DOMAIN store : ~(t > store[x].expiresAt)} |-> store[k]]

\* (mutant) a sweep that removes the entries of the shortest TTL as well
TtlSweep_Early(store, t) ==
  [k \in {x \in DOMAIN store : ~(t + 5 >= store[x].expiresAt)} |-> store[k]]

TtlSweep(store, t) ==
  [k \in {x \in DOMAIN store : ~(t >= store[x].expiresAt)} |-> store[k]]

\* DEFAULT_TTL_MS of idempotency.ts and of replayProtection.ts, in minutes
IdempotencyTtl == 10

ReplayTtl == 5

\* ------------------------------------------------------------- the state
X402_REQUIRED == "payment-required"

X402_SIGNATURE == "payment-signature"

X402_RESPONSE == "payment-response"

ReqIds == 1..MaxReq

VARIABLES
  now,               \* Date.now()
  mockPayments,      \* config.mockPayments
  replayNonces,      \* the store of the nonce cache
  idempotencyCache,  \* the store of the idempotency cache
  reqs,              \* per request: the request, res.locals, the response
  cur,               \* the request running on the event loop, 0 when idle
  probe              \* a function or object exercised on its own: its
                     \* arguments and result, or the object's fields

vars == <<now, mockPayments, replayNonces, idempotencyCache, reqs, cur, probe>>

NoHeaders == <<>>

Header(h, name) == IF name \in DOMAIN h THEN Some(h[name]) ELSE None

SetHeader(h, name, value) ==
  [k \in DOMAIN h \cup {name} |-> IF k = name THEN value ELSE h[k]]

IdleReq ==
  [ pc |-> "idle", method |-> "", path |-> "", headers |-> NoHeaders, at |-> 0,
    paymentPayload |-> None, receipt |-> None, verification |-> None,
    hook |-> None,
    status |-> 200, resHeaders |-> NoHeaders, body |-> None, via |-> "",
    \* what happened to the request, for the properties below
    sent |-> NoHeaders, signed |-> None, sawDone |-> {}, entered |-> <<>>, answeredBy |-> "",
    doneAt |-> 0, noncePassed |-> None, verified |-> None, calls |-> <<>>,
    upstream |-> None, relayed |-> None ]

Init ==
  /\ now = 0
  /\ mockPayments \in BOOLEAN
  /\ replayNonces = <<>>
  /\ idempotencyCache = <<>>
  /\ reqs = [r \in ReqIds |-> IdleReq]
  /\ cur = 0
  /\ probe = None

\* ------------------------------------------------------ client payloads
\* A PaymentPayload for a policy's offer, as signer.ts / makePaymentSig build it
OfferPayload(pol, nonce, memo, amount) ==
  [ x402Version |-> 2, scheme |-> pol.scheme, network |-> pol.network,
    asset |-> pol.asset, payTo |-> pol.payTo, amount |-> DecStr(amount),
    nonce |-> nonce, signature |-> "sig", resource |-> ResourceUrl(pol.path),
    memo |-> memo ]

OfferFields == {"scheme", "network", "asset", "payTo"}

Other(f) ==
  CASE f = "scheme" -> "other-scheme"
    [] f = "network" -> "stacks:1"
    [] f = "asset" -> "sBTC"
    [] f = "payTo" -> "ST2OTHER"

\* the payload with the fields of D replaced by values the offer does not carry
Deviate(p, D) == [f \in DOMAIN p |-> IF f \in D THEN Other(f) ELSE p[f]]

Sig(p) == toBase64(StringifyPayload(p))

\* -------------------------------------------------------------- responses
Err(parts) == [success |-> FALSE, error |-> parts]

\* (mutant) a res.json hook that stores the response whatever its status
CaptureJson_AnyStatus(rq, st, body) ==
  IF IsSome(rq.hook)
    THEN LET pr == Header(rq.resHeaders, X402_RESPONSE)
             headersToCache ==
               IF IsSome(pr) THEN SetHeader(NoHeaders, X402_RESPONSE, pr[1])
               ELSE NoHeaders
         IN TtlSet(idempotencyCache, rq.hook[1],
                   [status |-> st, headers |-> headersToCache, body |-> body],
                   IdempotencyTtl, now)
    ELSE idempotencyCache

\* (mutant) a res.json hook that stores every response but a server error
CaptureJson_Below500(rq, st, body) ==
  IF IsSome(rq.hook) /\ st >= 200 /\ st < 500
    THEN LET pr == Header(rq.resHeaders, X402_RESPONSE)
             headersToCache ==
               IF IsSome(pr) THEN SetHeader(NoHeaders, X402_RESPONSE, pr[1])
               ELSE NoHeaders
         IN TtlSet(idempotencyCache, rq.hook[1],
                   [status |-> st, headers |-> headersToCache, body |-> body],
                   IdempotencyTtl, now)
    ELSE idempotencyCache

\* the res.json the idempotency middleware installs (idempotency.ts 52-67):
\* the idempotency cache after res.json(body) on a response of status st
CaptureJson(rq, st, body) ==
  IF IsSome(rq.hook) /\ st >= 200 /\ st < 300
    THEN LET pr == Header(rq.resHeaders, X402_RESPONSE)
             headersToCache ==
               IF IsSome(pr) THEN SetHeader(NoHeaders, X402_RESPONSE, pr[1])
               ELSE NoHeaders
         IN TtlSet(idempotencyCache, rq.hook[1],
                   [status |-> st, headers |-> headersToCache, body |-> body],
                   IdempotencyTtl, now)
    ELSE idempotencyCache

\* the request after res.status(st).json(body)
SentJson(rq, st, body) ==
  [rq EXCEPT !.status = st, !.body = Some(body), !.via = "json", !.pc = "done",
             !.answeredBy = rq.entered[Len(rq.entered)], !.doneAt = now]

\* (mutant) a stage that sends its response and still calls next()
ResJson_NoReturn(r, rq, st, body) ==
  /\ reqs' = [reqs EXCEPT ![r] = [SentJson(rq, st, body) EXCEPT !.pc = "handler"]]
  /\ idempotencyCache' = CaptureJson(rq, st, body)
  /\ cur' = r

\* res.status(st).json(body) by request r, which then leaves the event loop
ResJson(r, rq, st, body) ==
  /\ reqs' = [reqs EXCEPT ![r] = SentJson(rq, st, body)]
  /\ idempotencyCache' = CaptureJson(rq, st, body)
  /\ cur' = 0

\* next(): request r goes on to the stage `stage` in the same callback
NextStage(r, rq, stage) ==
  /\ reqs' = [reqs EXCEPT ![r] = [rq EXCEPT !.pc = stage]]
  /\ cur' = r

Running(r, stage) == cur = r /\ reqs[r].pc = stage

\* request r as it enters the middleware or handler `name`
Enter(r, name) == [reqs[r] EXCEPT !.entered = Append(@, name)]

\* ------------------------------------------------------------ the pipeline
\* Node's HTTP parser hands the handler lower-case header names
toLowerCase(name) ==
  CASE name \in {"Host", "HOST", "host"} -> "host"
    [] name \in {"Content-Length", "content-length"} -> "content-length"
    [] name \in {"Connection", "connection"} -> "connection"
    [] name \in {"Payment-Signature", "PAYMENT-SIGNATURE", "payment-signature"}
         -> "payment-signature"
    [] name \in {"Payment-Required", "PAYMENT-REQUIRED", "payment-required"}
         -> "payment-required"
    [] name \in {"Payment-Response", "PAYMENT-RESPONSE", "payment-response"}
         -> "payment-response"
    [] name \in {"Idempotency-Key", "idempotency-key"} -> "idempotency-key"
    [] name \in {"Accept", "accept"} -> "accept"
    [] name \in {"Content-Type", "content-type"} -> "content-type"
    [] name \in {"X-Api-Key", "x-api-key"} -> "x-api-key"
    [] OTHER -> name

\* req.headers: the names the client sent, lower-cased
IncomingHeaders(sent) ==
  [k \in {toLowerCase(n) : n \in DOMAIN sent} |->
     sent[CHOOSE n \in DOMAIN sent : toLowerCase(n) = k]]

\* A request arrives: express hands it to the protected stack.
\* `signed` is the payload the client encoded into its payment-signature header.
Arrive(r, method, path, sent, signed) ==
  /\ cur = 0
  /\ reqs[r].pc = "idle"
  /\ \A q \in ReqIds : q < r => reqs[q].pc # "idle"
  /\ reqs' = [reqs EXCEPT ![r] =
                [@ EXCEPT !.pc = "idempotency", !.method = method,
                          !.path = path, !.headers = IncomingHeaders(sent),
                          !.at = now, !.sent = sent, !.signed = signed,
                          !.sawDone = {q \in ReqIds : reqs[q].pc = "done"}]]
  /\ cur' = r
  /\ UNCHANGED <<now, mockPayments, probe, replayNonces, idempotencyCache>>

\* the text of a string as its colon-free pieces with ":" between them
Chars(s) ==
  CASE s = "a:b" -> <<"a", ":", "b">>
    [] s = "x:k1" -> <<"x", ":", "k1">>
    [] s = "/proxy/api/weather:x" -> <<"/proxy/api/weather", ":", "x">>
    [] OTHER -> <<s>>

\* `idem:${method.toUpperCase()}:${path}:${token}`
idempotencyKey(token, method, path) ==
  <<"idem", ":", toUpperCase(method), ":">> \o Chars(path) \o <<":">> \o Chars(token)

\* (mutant) a hit stores the entry anew, with a new expiry
idempotency_Refresh(r) ==
  /\ Running(r, "idempotency")
  /\ LET rq == Enter(r, "idempotency")
         token == Header(rq.headers, "idempotency-key")
     IN IF ~IsSome(token)
          THEN /\ NextStage(r, rq, "validateSignature")
               /\ UNCHANGED idempotencyCache
          ELSE LET key == idempotencyKey(token[1], rq.method, rq.path)
                   cached == TtlGet(idempotencyCache, key, now)
               IN /\ idempotencyCache' =
                       IF IsSome(cached)
                         THEN TtlSet(idempotencyCache, key, cached[1],
                                     IdempotencyTtl, now)
                         ELSE TtlGetStore(idempotencyCache, key, now)
                  /\ IF IsSome(cached)
                       THEN /\ reqs' = [reqs EXCEPT ![r] =
                                 [rq EXCEPT !.resHeaders = cached[1].headers,
                                            !.status = cached[1].status,
                                            !.body = Some(cached[1].body),
                                            !.via = "json", !.pc = "done",
                                            !.answeredBy = "idempotency",
                                            !.doneAt = now]]
                            /\ cur' = 0
                       ELSE NextStage(r, [rq EXCEPT !.hook = Some(key)],
                                      "validateSignature")
  /\ UNCHANGED <<now, mockPayments, probe, replayNonces>>

idempotency(r) ==
  /\ Running(r, "idempotency")
  /\ LET rq == Enter(r, "idempotency")
         token == Header(rq.headers, "idempotency-key")
     IN IF ~IsSome(token)
          THEN /\ NextStage(r, rq, "validateSignature")
               /\ UNCHANGED idempotencyCache
          ELSE LET key == idempotencyKey(token[1], rq.method, rq.path)
                   cached == TtlGet(idempotencyCache, key, now)
               IN /\ idempotencyCache' = TtlGetStore(idempotencyCache, key, now)
                  /\ IF IsSome(cached)
                       THEN /\ reqs' = [reqs EXCEPT ![r] =
                                 [rq EXCEPT !.resHeaders = cached[1].headers,
                                            !.status = cached[1].status,
                                            !.body = Some(cached[1].body),
                                            !.via = "json", !.pc = "done",
                                            !.answeredBy = "idempotency",
                                            !.doneAt = now]]
                            /\ cur' = 0
                       ELSE NextStage(r, [rq EXCEPT !.hook = Some(key)],
                                      "validateSignature")
  /\ UNCHANGED <<now, mockPayments, probe, replayNonces>>

\* decodePayload: JSON.parse of the base64-decoded header, with the kind of
\* value it returned; None when it throws
decodePayload(raw) ==
  LET json == Base64Decode(raw)
      parsed == JsonParse(json)
  IN IF IsSome(parsed) THEN Some([kind |-> JsonKind(json), val |-> parsed[1]])
     ELSE None

\* val === null || val === "" for the value of payload field f.  In every
\* payload of the model x402Version is a number, amount a quoted text of
\* characters and each other field a string or null.
IsEmptyValue(f, val) ==
  CASE f = "x402Version" -> FALSE
    [] f = "amount" -> val.dec = <<>>
    [] OTHER -> val \in {"", Null}

\* an exception thrown out of a middleware: express answers 500 itself, not
\* through res.json
Throw(r, rq) ==
  /\ reqs' = [reqs EXCEPT ![r] =
                [rq EXCEPT !.status = 500, !.body = Some([error |-> "TypeError"]),
                           !.via = "error", !.pc = "done",
                           !.answeredBy = "express", !.doneAt = now]]
  /\ cur' = 0
  /\ UNCHANGED idempotencyCache

PAYMENT_PAYLOAD_REQUIRED_FIELDS ==
  << "x402Version", "scheme", "network", "asset", "payTo", "amount", "nonce",
     "signature", "resource" >>

\* (mutant) the scheme is not cross-referenced
Mismatches_NoScheme(payload, accept) ==
  SelectSeq(<<"network", "asset", "payTo">>, LAMBDA f : payload[f] # accept[f])

\* the offer fields the payload disagrees with, in the order they are tested
Mismatches(payload, accept) ==
  SelectSeq(<<"network", "asset", "payTo", "scheme">>,
            LAMBDA f : payload[f] # accept[f])

RECURSIVE StripZeros(_)
StripZeros(cs) ==
  IF Len(cs) > 0 /\ cs[1] = 48 THEN StripZeros(Tail(cs)) ELSE cs

\* BigInt(string): sign and magnitude (the digits without leading zeros) of
\* an optionally signed run of decimal digits, "" being 0n; None when it
\* throws a SyntaxError
BigInt(d) ==
  LET neg == Len(d.dec) > 0 /\ d.dec[1] = 45
      digits == IF neg THEN Tail(d.dec) ELSE d.dec
  IN IF (neg /\ Len(digits) = 0)
          \/ \E i \in 1..Len(digits) : digits[i] \notin 48..57
       THEN None
       ELSE LET mag == StripZeros(digits)
            IN Some([neg |-> neg /\ Len(mag) > 0, mag |-> mag])

MagLess(a, b) ==
  \/ Len(a) < Len(b)
  \/ /\ Len(a) = Len(b)
     /\ \E i \in 1..Len(a) :
          a[i] < b[i] /\ \A j \in 1..(i - 1) : a[j] = b[j]

\* x < y on bigints
BigLess(x, y) ==
  IF x.neg # y.neg THEN x.neg
  ELSE IF x.neg THEN MagLess(y.mag, x.mag)
  ELSE MagLess(x.mag, y.mag)

\* (mutant) the amounts compared as Number(): digits past the 15th are lost
checkAmount_Number(amount, maxAmountRequired) ==
  LET lead(m) == [neg |-> m.neg,
                  mag |-> [i \in 1..Len(m.mag) |-> IF i <= 15 THEN m.mag[i] ELSE 48]]
  IN IF ~IsSome(BigInt(amount)) THEN "invalid"
     ELSE IF BigLess(lead(BigInt(amount)[1]), lead(BigInt(maxAmountRequired)[1]))
       THEN "insufficient"
     ELSE "sufficient"

\* the amount test of validateSignature: paidAmount < offeredAmount on bigints
checkAmount(amount, maxAmountRequired) ==
  IF ~IsSome(BigInt(amount)) THEN "invalid"
  ELSE IF BigLess(BigInt(amount)[1], BigInt(maxAmountRequired)[1])
    THEN "insufficient"
  ELSE "sufficient"

validateSignature(r) ==
  /\ Running(r, "validateSignature")
  /\ LET rq == Enter(r, "validateSignature")
         raw == Header(rq.headers, X402_SIGNATURE)
     IN IF ~IsSome(raw)
          THEN NextStage(r, rq, "replayProtection") /\ UNCHANGED idempotencyCache
          ELSE LET decoded == decodePayload(raw[1]) IN
            IF ~IsSome(decoded)
              THEN ResJson(r, rq, 400, Err(<<"not valid base64-encoded JSON">>))
            \* payload[f] of null throws a TypeError
            ELSE IF decoded[1].kind = "null" THEN Throw(r, rq)
              ELSE LET payload == decoded[1].val
                       missing ==
                         IF decoded[1].kind # "object"
                           THEN PAYMENT_PAYLOAD_REQUIRED_FIELDS
                           ELSE SelectSeq(PAYMENT_PAYLOAD_REQUIRED_FIELDS,
                                          LAMBDA f : \/ f \notin DOMAIN payload
                                                     \/ IsEmptyValue(f, payload[f]))
                       policy == findPolicy(rq.path, rq.method)
                   IN
                IF Len(missing) > 0
                  THEN ResJson(r, rq, 400, Err(<<"missing required fields">> \o missing))
                ELSE IF payload.x402Version # 2
                  THEN ResJson(r, rq, 400, Err(<<"Unsupported x402Version">>))
                ELSE IF IsSome(policy)
                       /\ Len(Mismatches(payload, buildAccept(policy[1]))) > 0
                  THEN ResJson(r, rq, 400,
                               Err(<<"does not match offer">>
                                   \o Mismatches(payload, buildAccept(policy[1]))))
                ELSE IF IsSome(policy)
                       /\ checkAmount(payload.amount,
                                      buildAccept(policy[1]).maxAmountRequired)
                            = "invalid"
                  THEN ResJson(r, rq, 400,
                               Err(<<"amount is not a valid integer string">>))
                ELSE IF IsSome(policy)
                       /\ checkAmount(payload.amount,
                                      buildAccept(policy[1]).maxAmountRequired)
                            = "insufficient"
                  THEN ResJson(r, rq, 400, Err(<<"Insufficient payment">>))
                ELSE /\ NextStage(r, [rq EXCEPT !.paymentPayload = Some(payload)],
                                  "replayProtection")
                     /\ UNCHANGED idempotencyCache
  /\ UNCHANGED <<now, mockPayments, probe, replayNonces>>

\* `nonce:${parts.join(":")}` with parts = nonce and, when truthy, memo
extractNonceKey(payload) ==
  <<"nonce", ":">> \o Chars(payload.nonce)
  \o (IF "memo" \in DOMAIN payload /\ payload.memo \notin {"", Null}
        THEN <<":">> \o Chars(payload.memo) ELSE <<>>)

\* (mutant) a replay records the key again
replayProtection_Extend(r) ==
  /\ Running(r, "replayProtection")
  /\ LET rq == Enter(r, "replayProtection")
         raw == Header(rq.headers, X402_SIGNATURE)
     IN IF ~IsSome(raw) \/ ~IsSome(rq.paymentPayload)
          THEN /\ NextStage(r, rq, "paymentRequired")
               /\ UNCHANGED <<replayNonces, idempotencyCache>>
          ELSE LET nonceKey == extractNonceKey(rq.paymentPayload[1]) IN
            IF TtlHas(replayNonces, nonceKey, now)
              THEN /\ ResJson(r, [rq EXCEPT !.noncePassed = Some(FALSE)], 409,
                              Err(<<"Replay detected">>))
                   /\ replayNonces' = TtlSet(replayNonces, nonceKey, TRUE, ReplayTtl, now)
              ELSE /\ replayNonces' = TtlSet(replayNonces, nonceKey, TRUE, ReplayTtl, now)
                   /\ NextStage(r, [rq EXCEPT !.noncePassed = Some(TRUE)],
                                "paymentRequired")
                   /\ UNCHANGED idempotencyCache
  /\ UNCHANGED <<now, mockPayments, probe>>

replayProtection(r) ==
  /\ Running(r, "replayProtection")
  /\ LET rq == Enter(r, "replayProtection")
         raw == Header(rq.headers, X402_SIGNATURE)
     IN IF ~IsSome(raw) \/ ~IsSome(rq.paymentPayload)
          THEN /\ NextStage(r, rq, "paymentRequired")
               /\ UNCHANGED <<replayNonces, idempotencyCache>>
          ELSE LET nonceKey == extractNonceKey(rq.paymentPayload[1]) IN
            IF TtlHas(replayNonces, nonceKey, now)
              THEN /\ ResJson(r, [rq EXCEPT !.noncePassed = Some(FALSE)], 409,
                              Err(<<"Replay detected">>))
                   /\ replayNonces' = TtlGetStore(replayNonces, nonceKey, now)
              ELSE /\ replayNonces' = TtlSet(replayNonces, nonceKey, TRUE, ReplayTtl, now)
                   /\ NextStage(r, [rq EXCEPT !.noncePassed = Some(TRUE)],
                                "paymentRequired")
                   /\ UNCHANGED idempotencyCache
  /\ UNCHANGED <<now, mockPayments, probe>>

\* (mutant) a mock receipt for the default price whatever was paid
MockReceipt_DefaultAmount(payload) ==
  [ txHash |-> Some("0x0"), network |-> NETWORK,
    payer |-> "ST1MOCK000000000000000000000000000000000",
    amount |-> DecStr(AMOUNT_MICROSTX), timestamp |-> now, settled |-> TRUE ]

\* the receipt of mock mode (paymentRequired.ts 73-80)
MockReceipt(payload) ==
  [ txHash |-> Some("0x0"), network |-> NETWORK,
    payer |-> "ST1MOCK000000000000000000000000000000000",
    amount |-> payload.amount, timestamp |-> now, settled |-> TRUE ]

\* the receipt of live mode, from the two facilitator answers (104-111)
LiveReceipt(verification, settlement) ==
  [ txHash |-> settlement.txHash, network |-> settlement.network,
    payer |-> verification.payer, amount |-> verification.amount,
    timestamp |-> settlement.timestamp, settled |-> settlement.settled ]

\* (mutant) the header is set but res.locals.receipt is not
WithReceipt_HeaderOnly(rq, receipt) ==
  [rq EXCEPT !.resHeaders = SetHeader(@, X402_RESPONSE,
                                      toBase64(StringifyReceipt(receipt)))]

\* res.set(PAYMENT-RESPONSE, toBase64(receipt)); res.locals.receipt = receipt
WithReceipt(rq, receipt) ==
  [rq EXCEPT !.receipt = Some(receipt),
             !.resHeaders = SetHeader(@, X402_RESPONSE,
                                      toBase64(StringifyReceipt(receipt)))]

\* paymentRequired up to its first await
paymentRequired(r) ==
  /\ Running(r, "paymentRequired")
  /\ LET rq == Enter(r, "paymentRequired")
         policy == findPolicy(rq.path, rq.method)
     IN IF ~IsSome(policy)
          THEN NextStage(r, rq, "handler") /\ UNCHANGED idempotencyCache
        ELSE IF ~IsSome(rq.paymentPayload)
          THEN LET requirements == buildRequirements(buildAccept(policy[1])) IN
                 ResJson(r, [rq EXCEPT !.resHeaders =
                                SetHeader(@, X402_REQUIRED,
                                          toBase64(StringifyRequirements(requirements)))],
                         402, requirements)
        ELSE IF mockPayments
          THEN /\ NextStage(r, WithReceipt(rq, MockReceipt(rq.paymentPayload[1])),
                            "handler")
               /\ UNCHANGED idempotencyCache
        ELSE \* await verifyPayment(rawSig, accept)
             /\ reqs' = [reqs EXCEPT ![r] =
                           [rq EXCEPT !.pc = "awaitVerify",
                                      !.calls = Append(@, "verify")]]
             /\ cur' = 0
             /\ UNCHANGED idempotencyCache
  /\ UNCHANGED <<now, mockPayments, probe, replayNonces>>

\* What the facilitator may answer to /verify: a 2xx body, or a failure
\* (network error, non-2xx) that verifyPayment throws.
VerifyAnswers(rq) ==
  IF ~IsSome(rq.paymentPayload) THEN {}
  ELSE { [ok |-> TRUE, valid |-> v, payer |-> "ST1PAYER",
          amount |-> rq.paymentPayload[1].amount, network |-> NETWORK] :
           v \in BOOLEAN }
       \cup { [ok |-> FALSE, text |-> "unavailable"] }

SettleAnswers ==
  { [ok |-> TRUE, settled |-> s, txHash |-> Some("0xabc"), network |-> NETWORK,
     timestamp |-> now] : s \in BOOLEAN }
  \cup { [ok |-> FALSE, text |-> "unavailable"] }

\* (mutant) a rejected verification releases the request's nonce
verifyPayment_ReleaseNonce(r, answer) ==
  /\ cur = 0
  /\ reqs[r].pc = "awaitVerify"
  /\ answer \in VerifyAnswers(reqs[r])
  /\ LET rq == [reqs[r] EXCEPT !.verified = Some(answer)] IN
       IF ~answer.ok
         THEN /\ ResJson(r, rq, 502, Err(<<"Facilitator /verify failed", answer.text>>))
              /\ UNCHANGED replayNonces
       ELSE IF ~answer.valid
         THEN /\ ResJson(r, rq, 401, Err(<<"Payment signature verification failed">>))
              /\ replayNonces' = Without(replayNonces,
                                         extractNonceKey(rq.paymentPayload[1]))
       ELSE /\ reqs' = [reqs EXCEPT ![r] =
                          [rq EXCEPT !.pc = "awaitSettle",
                                     !.verification = Some(answer),
                                     !.calls = Append(@, "settle")]]
            /\ cur' = 0
            /\ UNCHANGED <<idempotencyCache, replayNonces>>
  /\ UNCHANGED <<now, mockPayments, probe>>

\* (mutant) the gate goes on to settle whatever verification.valid is
verifyPayment_IgnoreValid(r, answer) ==
  /\ cur = 0
  /\ reqs[r].pc = "awaitVerify"
  /\ answer \in VerifyAnswers(reqs[r])
  /\ LET rq == [reqs[r] EXCEPT !.verified = Some(answer)] IN
       IF ~answer.ok
         THEN ResJson(r, rq, 502, Err(<<"Facilitator /verify failed", answer.text>>))
       ELSE /\ reqs' = [reqs EXCEPT ![r] =
                          [rq EXCEPT !.pc = "awaitSettle",
                                     !.verification = Some(answer),
                                     !.calls = Append(@, "settle")]]
            /\ cur' = 0
            /\ UNCHANGED idempotencyCache
  /\ UNCHANGED <<now, mockPayments, probe, replayNonces>>

\* paymentRequired resumes with the answer of verifyPayment
verifyPayment(r, answer) ==
  /\ cur = 0
  /\ reqs[r].pc = "awaitVerify"
  /\ answer \in VerifyAnswers(reqs[r])
  /\ LET rq == [reqs[r] EXCEPT !.verified = Some(answer)] IN
       IF ~answer.ok
         THEN ResJson(r, rq, 502, Err(<<"Facilitator /verify failed", answer.text>>))
       ELSE IF ~answer.valid
         THEN ResJson(r, rq, 401, Err(<<"Payment signature verification failed">>))
       ELSE /\ reqs' = [reqs EXCEPT ![r] =
                          [rq EXCEPT !.pc = "awaitSettle",
                                     !.verification = Some(answer),
                                     !.calls = Append(@, "settle")]]
            /\ cur' = 0
            /\ UNCHANGED idempotencyCache
  /\ UNCHANGED <<now, mockPayments, probe, replayNonces>>

\* (mutant) a failed settle is swallowed and the request goes on
settlePayment_Swallow(r, answer) ==
  /\ cur = 0
  /\ reqs[r].pc = "awaitSettle"
  /\ answer \in SettleAnswers
  /\ LET rq == reqs[r] IN
       IF ~answer.ok
         THEN NextStage(r, rq, "handler") /\ UNCHANGED idempotencyCache
       ELSE /\ NextStage(r, WithReceipt(rq, LiveReceipt(rq.verification[1], answer)),
                         "handler")
            /\ UNCHANGED idempotencyCache
  /\ UNCHANGED <<now, mockPayments, probe, replayNonces>>

\* (mutant) a failure of settlePayment that nothing catches: no response
settlePayment_Uncaught(r, answer) ==
  /\ cur = 0
  /\ reqs[r].pc = "awaitSettle"
  /\ answer \in SettleAnswers
  /\ LET rq == reqs[r] IN
       IF ~answer.ok
         THEN /\ reqs' = [reqs EXCEPT ![r] = [rq EXCEPT !.pc = "rejected"]]
              /\ cur' = 0
              /\ UNCHANGED idempotencyCache
       ELSE /\ NextStage(r, WithReceipt(rq, LiveReceipt(rq.verification[1], answer)),
                         "handler")
            /\ UNCHANGED idempotencyCache
  /\ UNCHANGED <<now, mockPayments, probe, replayNonces>>

\* paymentRequired resumes with the answer of settlePayment
settlePayment(r, answer) ==
  /\ cur = 0
  /\ reqs[r].pc = "awaitSettle"
  /\ answer \in SettleAnswers
  /\ LET rq == reqs[r] IN
       IF ~answer.ok
         THEN ResJson(r, rq, 502, Err(<<"Facilitator /settle failed", answer.text>>))
       ELSE /\ NextStage(r, WithReceipt(rq, LiveReceipt(rq.verification[1], answer)),
                         "handler")
            /\ UNCHANGED idempotencyCache
  /\ UNCHANGED <<now, mockPayments, probe, replayNonces>>

\* ---------------------------------------------------------------- handlers
\* premiumRouter: GET /v1/premium/echo
IsEchoRoute(rq) == rq.method = "GET" /\ rq.path = "/v1/premium/echo"

\* app.all("/proxy/*", proxyHandler)
\* express matches a route path without regard to letter case
IsProxyRoute(rq) ==
  rq.path \in {"/proxy/api/weather", "/proxy/api/summarize", "/proxy/free",
               "/proxy/api/weather:x", "/PROXY/api/weather", "/proxy/api/weather/"}

\* req.originalUrl.slice(STRIP_PREFIX.length): the path without its first
\* six characters
upstreamPath(originalUrl) ==
  CASE originalUrl \in {"/proxy/api/weather", "/PROXY/api/weather"} -> "/api/weather"
    [] originalUrl = "/proxy/api/weather/" -> "/api/weather/"
    [] originalUrl = "/proxy/api/weather:x" -> "/api/weather:x"
    [] originalUrl = "/proxy/api/summarize" -> "/api/summarize"
    [] originalUrl = "/proxy/free" -> "/free"

premiumEcho(r) ==
  /\ Running(r, "handler")
  /\ IsEchoRoute(reqs[r])
  /\ LET rq == Enter(r, "premiumEcho")
         data == [echo |-> "", ts |-> now]
         payload ==
           IF IsSome(rq.receipt)
             THEN [success |-> TRUE, data |-> data, receipt |-> rq.receipt[1]]
             ELSE [success |-> TRUE, data |-> data]
     IN ResJson(r, rq, 200, payload)
  /\ UNCHANGED <<now, mockPayments, probe, replayNonces>>

HOP_BY_HOP ==
  { "connection", "keep-alive", "proxy-authenticate", "proxy-authorization",
    "te", "trailer", "transfer-encoding", "upgrade", "host", "content-length" }

PAYMENT_HEADERS == {X402_REQUIRED, X402_SIGNATURE, X402_RESPONSE}

SUPPRESS_UPSTREAM == HOP_BY_HOP \cup {"content-length"}

\* (mutant) the x402 headers are forwarded
buildUpstreamHeaders_KeepPayment(incoming) ==
  [k \in { key \in DOMAIN incoming : toLowerCase(key) \notin HOP_BY_HOP } |->
     incoming[k]]

buildUpstreamHeaders(incoming) ==
  [k \in { key \in DOMAIN incoming :
             /\ toLowerCase(key) \notin HOP_BY_HOP
             /\ toLowerCase(key) \notin PAYMENT_HEADERS } |-> incoming[k]]

\* proxyHandler up to its await fetch(target, ...)
proxyHandler(r) ==
  /\ Running(r, "handler")
  /\ ~IsEchoRoute(reqs[r])
  /\ IsProxyRoute(reqs[r])
  /\ LET rq == Enter(r, "proxyHandler")
         hasBody == rq.method # "GET" /\ rq.method # "HEAD"
         built == buildUpstreamHeaders(rq.headers)
         headers == IF hasBody /\ "content-type" \notin DOMAIN built
                      THEN SetHeader(built, "content-type", "application/json")
                      ELSE built
     IN /\ reqs' = [reqs EXCEPT ![r] =
                      [rq EXCEPT !.pc = "awaitUpstream",
                                 !.upstream = Some([method |-> rq.method,
                                                    target |-> upstreamPath(rq.path),
                                                    path |-> rq.path,
                                                    headers |-> headers])]]
        /\ cur' = 0
  /\ UNCHANGED <<now, mockPayments, probe, replayNonces, idempotencyCache>>

\* What the upstream may answer: a response, or a failure fetch throws.
UpstreamAnswers ==
  { [ok |-> TRUE, status |-> 200, headers |-> SetHeader(NoHeaders, "content-type", "application/json"),
     body |-> [city |-> "Tokyo"]],
    [ok |-> TRUE, status |-> 200, headers |-> SetHeader(NoHeaders, "content-type", "text/plain"),
     body |-> [text |-> "sunny"]],
    [ok |-> TRUE, status |-> 500, headers |-> SetHeader(NoHeaders, "content-type", "application/json"),
     body |-> [error |-> "boom"]],
    [ok |-> FALSE] }

\* a receipt of the upstream's making
UpstreamReceipt ==
  [ txHash |-> Some("0xabc"), network |-> NETWORK, payer |-> "ST1PAYER",
    amount |-> DecStr(1), timestamp |-> 0, settled |-> TRUE ]

\* answers of an upstream that sets a payment-response header of its own,
\* answers 404, or sends a body that is not the JSON its content-type announces
RelayAnswers ==
  { [ok |-> TRUE, status |-> 200,
     headers |-> SetHeader(SetHeader(NoHeaders, "content-type", "application/json"),
                           X402_RESPONSE, toBase64(StringifyReceipt(UpstreamReceipt))),
     body |-> [city |-> "Tokyo"]],
    [ok |-> TRUE, status |-> 200,
     headers |-> SetHeader(SetHeader(NoHeaders, "content-type", "text/plain"),
                           X402_RESPONSE, toBase64(StringifyReceipt(UpstreamReceipt))),
     body |-> [text |-> "sunny"]],
    [ok |-> TRUE, status |-> 404,
     headers |-> SetHeader(NoHeaders, "content-type", "application/json"),
     body |-> [error |-> "not found"]],
    [ok |-> TRUE, status |-> 200,
     headers |-> SetHeader(NoHeaders, "content-type", "application/json"),
     body |-> [text |-> "<html>"], invalidJson |-> TRUE] }

\* (mutant) every JSON body is wrapped, with the receipt when there is one
ProxyBody_WrapAllJson(rq, answer, isJson) ==
  IF IsSome(rq.receipt) /\ isJson
    THEN [success |-> answer.status \in 200..299, data |-> answer.body,
          receipt |-> rq.receipt[1]]
  ELSE IF isJson
    THEN [success |-> answer.status \in 200..299, data |-> answer.body]
  ELSE answer.body

\* what proxyHandler sends: the envelope or the upstream body (264-277)
ProxyBody(rq, answer, isJson) ==
  IF IsSome(rq.receipt) /\ isJson
    THEN [success |-> answer.status \in 200..299, data |-> answer.body,
          receipt |-> rq.receipt[1]]
  ELSE answer.body

\* proxyHandler resumes with the upstream's answer
upstreamResponse(r, answer) ==
  /\ cur = 0
  /\ reqs[r].pc = "awaitUpstream"
  /\ answer \in UpstreamAnswers \cup RelayAnswers
  /\ LET rq == [reqs[r] EXCEPT !.relayed = Some(answer)] IN
       IF ~answer.ok
         THEN ResJson(r, rq, 502, Err(<<"Upstream unreachable">>))
         ELSE LET relayed ==
                    [k \in DOMAIN rq.resHeaders
                         \cup {x \in DOMAIN answer.headers :
                                 toLowerCase(x) \notin SUPPRESS_UPSTREAM} |->
                       IF k \in DOMAIN answer.headers
                            /\ toLowerCase(k) \notin SUPPRESS_UPSTREAM
                         THEN answer.headers[k] ELSE rq.resHeaders[k]]
                  rs == [rq EXCEPT !.resHeaders = relayed]
                  isJson == answer.headers["content-type"] = "application/json"
              IN IF isJson /\ "invalidJson" \in DOMAIN answer
                   THEN \* upstream.json() throws: the catch block
                     ResJson(r, rs, 502, Err(<<"Unexpected token">>))
                 ELSE IF isJson
                   THEN ResJson(r, rs, answer.status, ProxyBody(rq, answer, isJson))
                 ELSE \* res.send(upstreamBody): not through res.json
                   /\ reqs' = [reqs EXCEPT ![r] =
                                 [rs EXCEPT !.status = answer.status,
                                            !.body = Some(ProxyBody(rq, answer, isJson)),
                                            !.via = "send", !.pc = "done",
                                            !.answeredBy = "proxyHandler",
                                            !.doneAt = now]]
                   /\ cur' = 0
                   /\ UNCHANGED idempotencyCache
  /\ UNCHANGED <<now, mockPayments, probe, replayNonces>>

\* ------------------------------------------------------- time and sweepers
\* The clock is read first when the first request arrives: that is time 0.
Tick ==
  /\ cur = 0
  /\ reqs[1].pc # "idle"
  /\ now + TickMin <= MaxTime
  /\ now' = now + TickMin
  /\ UNCHANGED <<mockPayments, probe, replayNonces, idempotencyCache, reqs, cur>>

\* the setInterval of each TtlCache: this.sweep()
sweepNonces ==
  /\ cur = 0
  /\ replayNonces' = TtlSweep(replayNonces, now)
  /\ UNCHANGED <<now, mockPayments, probe, idempotencyCache, reqs, cur>>

sweepIdempotency ==
  /\ cur = 0
  /\ idempotencyCache' = TtlSweep(idempotencyCache, now)
  /\ UNCHANGED <<now, mockPayments, probe, replayNonces, reqs, cur>>

\* ------------------------------------------------------- what clients send
ClientHeaders(token, sig) ==
  [k \in (IF IsSome(token) THEN {"Idempotency-Key"} ELSE {})
         \cup (IF IsSome(sig) THEN {"Payment-Signature"} ELSE {}) |->
     IF k = "Idempotency-Key" THEN token[1] ELSE sig[1]]

Tokens == {None, Some("k1")}

\* the payloads a client sends to a priced route: the offer's terms with two
\* nonces, an overpayment and an underpayment
CorePayloads(pol) ==
  { OfferPayload(pol, "n1", None, DecVal(pol.maxAmountRequired)),
    OfferPayload(pol, "n2", None, DecVal(pol.maxAmountRequired) + 1),
    OfferPayload(pol, "n1", None, DecVal(pol.maxAmountRequired) - 1) }

PricedRoutes == {p \in {policies[i] : i \in 1..Len(policies)} : p.method = "GET"}

\* a request of a client that signed payload `signed` (or none)
ClientRequest(pol, token, signed) ==
  [ method |-> pol.method, path |-> pol.path, signed |-> signed,
    headers |-> ClientHeaders(token, IF IsSome(signed) THEN Some(Sig(signed[1]))
                                     ELSE None) ]

Inputs ==
  UNION { { ClientRequest(pol, token, signed) :
              token \in Tokens,
              signed \in {None} \cup {Some(p) : p \in CorePayloads(pol)} } :
          pol \in PricedRoutes }

Next ==
  \/ \E r \in ReqIds : \E in \in Inputs :
       Arrive(r, in.method, in.path, in.headers, in.signed)
  \/ \E r \in ReqIds : idempotency(r)
  \/ \E r \in ReqIds : validateSignature(r)
  \/ \E r \in ReqIds : replayProtection(r)
  \/ \E r \in ReqIds : paymentRequired(r)
  \/ \E r \in ReqIds : \E a \in VerifyAnswers(reqs[r]) : verifyPayment(r, a)
  \/ \E r \in ReqIds : \E a \in SettleAnswers : settlePayment(r, a)
  \/ \E r \in ReqIds : premiumEcho(r)
  \/ \E r \in ReqIds : proxyHandler(r)
  \/ \E r \in ReqIds : \E a \in UpstreamAnswers : upstreamResponse(r, a)
  \/ Tick
  \/ sweepNonces
  \/ sweepIdempotency

Spec == Init /\ [][Next]_vars

\* --- signature validation in mock mode: payloads that deviate from the offer
\* in every non-empty subset of scheme, network, asset and payTo
ValidatePayloads(pol) ==
  { OfferPayload(pol, "n1", None, DecVal(pol.maxAmountRequired)),
    OfferPayload(pol, "n2", None, DecVal(pol.maxAmountRequired) + 1) }
  \cup { Deviate(OfferPayload(pol, "n1", None, DecVal(pol.maxAmountRequired)), D) :
           D \in (SUBSET OfferFields) \ {{}} }

InputsValidate ==
  UNION { { ClientRequest(pol, token, Some(p)) :
              token \in Tokens, p \in ValidatePayloads(pol) } :
          pol \in PricedRoutes }

InitValidate == Init /\ mockPayments

NextValidate ==
  \/ \E r \in ReqIds : \E in \in InputsValidate :
       Arrive(r, in.method, in.path, in.headers, in.signed)
  \/ \E r \in ReqIds : idempotency(r)
  \/ \E r \in ReqIds : validateSignature(r)
  \/ \E r \in ReqIds : replayProtection(r)
  \/ \E r \in ReqIds : paymentRequired(r)
  \/ \E r \in ReqIds : premiumEcho(r)
  \/ \E r \in ReqIds : proxyHandler(r)
  \/ \E r \in ReqIds : \E a \in UpstreamAnswers : upstreamResponse(r, a)
  \/ Tick
  \/ sweepNonces
  \/ sweepIdempotency

SpecValidate == InitValidate /\ [][NextValidate]_vars

\* Every registered policy, with or without a payment for its offer.
AllRoutes == {policies[i] : i \in 1..Len(policies)}

InputsOffer ==
  UNION { { ClientRequest(pol, token, signed) :
              token \in Tokens,
              signed \in {None,
                          Some(OfferPayload(pol, "n1", None,
                                            DecVal(pol.maxAmountRequired)))} } :
          pol \in AllRoutes }

NextOffer ==
  \/ \E r \in ReqIds : \E in \in InputsOffer :
       Arrive(r, in.method, in.path, in.headers, in.signed)
  \/ \E r \in ReqIds : idempotency(r)
  \/ \E r \in ReqIds : validateSignature(r)
  \/ \E r \in ReqIds : replayProtection(r)
  \/ \E r \in ReqIds : paymentRequired(r)
  \/ \E r \in ReqIds : \E a \in VerifyAnswers(reqs[r]) : verifyPayment(r, a)
  \/ \E r \in ReqIds : \E a \in SettleAnswers : settlePayment(r, a)
  \/ \E r \in ReqIds : premiumEcho(r)
  \/ \E r \in ReqIds : proxyHandler(r)
  \/ \E r \in ReqIds : \E a \in UpstreamAnswers : upstreamResponse(r, a)
  \/ Tick
  \/ sweepNonces
  \/ sweepIdempotency

SpecOffer == Init /\ [][NextOffer]_vars

\* The proxied routes, with the headers a client or an intermediary may add in
\* whatever casing; /proxy/free has no policy.
HeadersOf(pairs) ==
  [n \in {pairs[i][1] : i \in 1..Len(pairs)} |->
     pairs[CHOOSE i \in 1..Len(pairs) : pairs[i][1] = n][2]]

ProxyHeaders(sig) ==
  { HeadersOf(<< <<"Payment-Signature", sig>>, <<"Host", "gateway">>,
                 <<"Content-Length", "2">>, <<"Connection", "keep-alive">>,
                 <<"X-Api-Key", "secret">>, <<"Accept", "text/plain">> >>),
    HeadersOf(<< <<"PAYMENT-SIGNATURE", sig>>, <<"PAYMENT-RESPONSE", "forged">>,
                 <<"Payment-Required", "forged">>, <<"Idempotency-Key", "k1">> >>),
    HeadersOf(<< <<"payment-signature", sig>>, <<"host", "gateway">>,
                 <<"x-api-key", "secret">>,
                 <<"Content-Type", "application/json">> >>),
    HeadersOf(<< <<"Host", "gateway">>, <<"Payment-Response", "forged">>,
                 <<"Accept", "text/plain">> >>) }

ProxyRoutes ==
  { [method |-> "GET", path |-> "/proxy/api/weather"],
    [method |-> "POST", path |-> "/proxy/api/summarize"],
    [method |-> "GET", path |-> "/proxy/free"] }

\* the payload a client signs for a route: its offer's terms, or for a route
\* without a policy those of the weather offer
ProxyPayload(route) ==
  LET policy == findPolicy(route.path, route.method)
      pol == IF IsSome(policy) THEN policy[1]
             ELSE findPolicy("/proxy/api/weather", "GET")[1]
  IN OfferPayload(pol, "n1", None, DecVal(pol.maxAmountRequired))

InputsProxy ==
  UNION { { [ method |-> route.method, path |-> route.path,
              signed |-> IF \E n \in DOMAIN h : toLowerCase(n) = X402_SIGNATURE
                           THEN Some(ProxyPayload(route)) ELSE None,
              headers |-> h ] :
              h \in ProxyHeaders(Sig(ProxyPayload(route))) } :
          route \in ProxyRoutes }

NextProxy ==
  \/ \E r \in ReqIds : \E in \in InputsProxy :
       Arrive(r, in.method, in.path, in.headers, in.signed)
  \/ \E r \in ReqIds : idempotency(r)
  \/ \E r \in ReqIds : validateSignature(r)
  \/ \E r \in ReqIds : replayProtection(r)
  \/ \E r \in ReqIds : paymentRequired(r)
  \/ \E r \in ReqIds : \E a \in VerifyAnswers(reqs[r]) : verifyPayment(r, a)
  \/ \E r \in ReqIds : \E a \in SettleAnswers : settlePayment(r, a)
  \/ \E r \in ReqIds : proxyHandler(r)
  \/ \E r \in ReqIds : \E a \in UpstreamAnswers : upstreamResponse(r, a)
  \/ Tick
  \/ sweepNonces
  \/ sweepIdempotency

SpecProxy == Init /\ [][NextProxy]_vars

\* Mock mode, the local route and the proxied routes with and without a
\* policy, paid or not, against an upstream that answers anything.
RelayRoutes ==
  { [method |-> "GET", path |-> "/v1/premium/echo"],
    [method |-> "GET", path |-> "/proxy/api/weather"],
    [method |-> "GET", path |-> "/proxy/free"] }

InputsRelay ==
  UNION { { [ method |-> route.method, path |-> route.path, signed |-> signed,
              headers |-> ClientHeaders(None, IF IsSome(signed)
                                                THEN Some(Sig(signed[1])) ELSE None) ] :
              signed \in {None, Some(ProxyPayload(route))} } :
          route \in RelayRoutes }

NextRelay ==
  \/ \E r \in ReqIds : \E in \in InputsRelay :
       Arrive(r, in.method, in.path, in.headers, in.signed)
  \/ \E r \in ReqIds : idempotency(r)
  \/ \E r \in ReqIds : validateSignature(r)
  \/ \E r \in ReqIds : replayProtection(r)
  \/ \E r \in ReqIds : paymentRequired(r)
  \/ \E r \in ReqIds : premiumEcho(r)
  \/ \E r \in ReqIds : proxyHandler(r)
  \/ \E r \in ReqIds : \E a \in UpstreamAnswers \cup RelayAnswers :
       upstreamResponse(r, a)
  \/ Tick

SpecRelay == InitValidate /\ [][NextRelay]_vars

\* A proxied path without a policy next to one with a policy, with or without
\* an idempotency-key and a payment, in mock and in live mode.
FreeRoutes ==
  { [method |-> "GET", path |-> "/proxy/free"],
    [method |-> "GET", path |-> "/proxy/api/weather"] }

InputsFree ==
  UNION { { [ method |-> route.method, path |-> route.path, signed |-> signed,
              headers |-> ClientHeaders(token, IF IsSome(signed)
                                                 THEN Some(Sig(signed[1])) ELSE None) ] :
              token \in Tokens, signed \in {None, Some(ProxyPayload(route))} } :
          route \in FreeRoutes }

NextFree ==
  \/ \E r \in ReqIds : \E in \in InputsFree :
       Arrive(r, in.method, in.path, in.headers, in.signed)
  \/ \E r \in ReqIds : idempotency(r)
  \/ \E r \in ReqIds : validateSignature(r)
  \/ \E r \in ReqIds : replayProtection(r)
  \/ \E r \in ReqIds : paymentRequired(r)
  \/ \E r \in ReqIds : \E a \in VerifyAnswers(reqs[r]) : verifyPayment(r, a)
  \/ \E r \in ReqIds : \E a \in SettleAnswers : settlePayment(r, a)
  \/ \E r \in ReqIds : proxyHandler(r)
  \/ \E r \in ReqIds : \E a \in UpstreamAnswers \cup RelayAnswers :
       upstreamResponse(r, a)
  \/ Tick
  \/ sweepNonces
  \/ sweepIdempotency

SpecFree == Init /\ [][NextFree]_vars

\* Mock mode, payments that meet a route's offer in every field but may name
\* the resource of another route.
ResourcePayloads(pol) ==
  { [OfferPayload(pol, nonce, None, DecVal(pol.maxAmountRequired))
       EXCEPT !.resource = ResourceUrl(other.path)] :
      nonce \in {"n1", "n2"}, other \in PricedRoutes }

InputsResource ==
  UNION { { ClientRequest(pol, None, Some(p)) : p \in ResourcePayloads(pol) } :
          pol \in PricedRoutes }

NextResource ==
  \/ \E r \in ReqIds : \E in \in InputsResource :
       Arrive(r, in.method, in.path, in.headers, in.signed)
  \/ \E r \in ReqIds : idempotency(r)
  \/ \E r \in ReqIds : validateSignature(r)
  \/ \E r \in ReqIds : replayProtection(r)
  \/ \E r \in ReqIds : paymentRequired(r)
  \/ \E r \in ReqIds : premiumEcho(r)
  \/ \E r \in ReqIds : proxyHandler(r)
  \/ \E r \in ReqIds : \E a \in UpstreamAnswers : upstreamResponse(r, a)
  \/ Tick

SpecResource == InitValidate /\ [][NextResource]_vars

\* The configuration on its own.  process.env gives each variable as unset
\* (None) or a string.
\* required(name, fallback) of config.ts: the value, or the error it throws
required(env, name, fallback) ==
  LET val == IF IsSome(env[name]) THEN env[name] ELSE fallback
  IN IF ~IsSome(val) \/ val[1] = ""
       THEN [ok |-> FALSE, error |-> <<"Missing required env var", name>>]
       ELSE [ok |-> TRUE, val |-> val[1]]

\* bool(name, fallback) of config.ts
bool(env, name, fallback) ==
  IF ~IsSome(env[name]) THEN fallback ELSE env[name][1] \in {"true", "1"}

\* the config object, or the error its construction throws: payTo is read
\* before amountMicroStx
config(env) ==
  LET notFalse == env["MOCK_PAYMENTS"] # Some("false")
      payTo == required(env, "PAY_TO", IF notFalse THEN Some(PAY_TO) ELSE None)
      amountMicroStx ==
        required(env, "AMOUNT_MICROSTX", IF notFalse THEN Some("100000") ELSE None)
  IN IF ~payTo.ok THEN payTo
     ELSE IF ~amountMicroStx.ok THEN amountMicroStx
     ELSE [ok |-> TRUE, payTo |-> payTo.val, amountMicroStx |-> amountMicroStx.val,
           mockPayments |-> bool(env, "MOCK_PAYMENTS", TRUE)]

Environments ==
  [ {"MOCK_PAYMENTS", "PAY_TO", "AMOUNT_MICROSTX"} -> {None} ]
  \cup { [MOCK_PAYMENTS |-> m, PAY_TO |-> p, AMOUNT_MICROSTX |-> a] :
           m \in {None, Some("true"), Some("1"), Some("false"), Some("0"),
                  Some(""), Some("TRUE"), Some("no")},
           p \in {None, Some(""), Some("ST2OTHER"), Some(PAY_TO)},
           a \in {None, Some(""), Some("5"), Some("100000")} }

\* the gateway module is imported: config.ts runs once
LoadConfig(env) ==
  /\ probe = None
  /\ cur = 0 /\ \A r \in ReqIds : reqs[r].pc = "idle"
  /\ probe' = Some([env |-> env, config |-> config(env)])
  /\ mockPayments' = IF config(env).ok THEN config(env).mockPayments ELSE mockPayments
  /\ UNCHANGED <<now, replayNonces, idempotencyCache, reqs, cur>>

NextConfig == \E env \in Environments : LoadConfig(env)

SpecConfig == Init /\ [][NextConfig]_vars

\* A policy registry on its own: a new PolicyEngine and calls of add.
RoutePolicies ==
  { PolicyBuilder(path, method, amount, "Weather lookup") :
      path \in {"/v1/premium/echo", "/proxy/api/weather"},
      method \in {"GET", "POST"}, amount \in {10, 50} }

\* the registry's policies field; a new PolicyEngine has none
Registered == IF IsSome(probe) THEN probe[1].policies ELSE <<>>

\* PolicyEngine.add(...items): this.policies.push(...items)
PolicyEngineAdd(items) ==
  /\ cur = 0 /\ \A r \in ReqIds : reqs[r].pc = "idle"
  /\ Len(Registered) + Len(items) <= MaxPolicies
  /\ probe' = Some([policies |-> Registered \o items])
  /\ UNCHANGED <<now, mockPayments, replayNonces, idempotencyCache, reqs, cur>>

NextRegistry ==
  \E n \in 1..2 : \E items \in [1..n -> RoutePolicies] : PolicyEngineAdd(items)

SpecRegistry == InitValidate /\ [][NextRegistry]_vars

\* A registry with calls of match.
\* (mutant) match that compares the method as it was given
PolicyEngineMatch_AsGiven(registry, path, method) ==
  LET hits == { i \in 1..Len(registry) :
                  registry[i].path = path /\ registry[i].method = method }
  IN IF hits = {} THEN None
     ELSE Some(registry[CHOOSE i \in hits : \A j \in hits : i <= j])

\* PolicyEngine.match(path, method) on the policies `registry`
PolicyEngineMatch(registry, path, method) ==
  LET upper == toUpperCase(method)
      hits == { i \in 1..Len(registry) :
                  registry[i].path = path /\ registry[i].method = upper }
  IN IF hits = {} THEN None
     ELSE Some(registry[CHOOSE i \in hits : \A j \in hits : i <= j])

\* the paths and methods match is asked about: registered ones, a prefix, a
\* pattern, a path with a query string, a trailing slash, other letter case
MatchPaths ==
  { "/v1/premium/echo", "/proxy/api/weather", "/proxy/api/weather/",
    "/PROXY/api/weather", "/proxy/api", "/proxy/*",
    "/proxy/api/weather?city=Tokyo" }

MatchMethods == {"GET", "get", "Get", "POST", "post", "HEAD"}

\* engine.match(path, method): the registry as the call leaves it and what
\* the call returned
PolicyEngineMatchCall(path, method) ==
  /\ cur = 0 /\ \A r \in ReqIds : reqs[r].pc = "idle"
  /\ probe' = Some([ policies |-> Registered,
                     matched |-> Some([path |-> path, method |-> method,
                                       result |-> PolicyEngineMatch(Registered, path,
                                                                    method)]) ])
  /\ UNCHANGED <<now, mockPayments, replayNonces, idempotencyCache, reqs, cur>>

NextMatch ==
  \/ \E items \in [1..1 -> RoutePolicies] : PolicyEngineAdd(items)
  \/ \E path \in MatchPaths : \E method \in MatchMethods :
       PolicyEngineMatchCall(path, method)

SpecMatch == InitValidate /\ [][NextMatch]_vars

\* The discovery document on its own.  A URL is the sequence of its pieces,
\* each "/" that ends it a piece of its own.
\* publicBaseUrl.replace(/\/+$/, "")
RECURSIVE StripSlashes(_)
StripSlashes(url) ==
  IF Len(url) > 0 /\ url[Len(url)] = "/"
    THEN StripSlashes(SubSeq(url, 1, Len(url) - 1))
    ELSE url

\* PolicyBuilder.ioSchema(schema)
ioSchema(policy, schema) ==
  [f \in DOMAIN policy \cup {"outputSchema"} |->
     IF f = "outputSchema" THEN schema ELSE policy[f]]

\* (mutant) the entry names the policy's CAIP-2 network
policyToAccept_PolicyNetwork(p, publicBaseUrl) ==
  [ network |-> p.network,
    resource |-> StripSlashes(publicBaseUrl) \o <<p.path>>,
    scheme |-> p.scheme, payTo |-> p.payTo,
    maxAmountRequired |-> p.maxAmountRequired, asset |-> p.asset,
    description |-> p.description, mimeType |-> p.mimeType,
    maxTimeoutSeconds |-> p.maxTimeoutSeconds,
    outputSchema |->
      IF "outputSchema" \in DOMAIN p THEN p.outputSchema
      ELSE [ method |-> p.method, input |-> <<>>,
             output |-> [data |-> [type |-> "object",
                                   description |-> "Response payload"]] ] ]

policyToAccept(p, publicBaseUrl) ==
  [ network |-> "stacks",
    resource |-> StripSlashes(publicBaseUrl) \o <<p.path>>,
    scheme |-> p.scheme, payTo |-> p.payTo,
    maxAmountRequired |-> p.maxAmountRequired, asset |-> p.asset,
    description |-> p.description, mimeType |-> p.mimeType,
    maxTimeoutSeconds |-> p.maxTimeoutSeconds,
    outputSchema |->
      IF "outputSchema" \in DOMAIN p THEN p.outputSchema
      ELSE [ method |-> p.method, input |-> <<>>,
             output |-> [data |-> [type |-> "object",
                                   description |-> "Response payload"]] ] ]

\* generateDiscovery(engine, opts) with the default name and description
generateDiscovery(all, publicBaseUrl) ==
  [ x402Version |-> 2, name |-> "moltgate", description |-> "x402 payment gateway",
    image |-> StripSlashes(publicBaseUrl) \o <<"/logo.png">>,
    url |-> publicBaseUrl,
    accepts |-> [i \in 1..Len(all) |-> policyToAccept(all[i], publicBaseUrl)] ]

WeatherSchema ==
  [ method |-> "GET", input |-> [city |-> [type |-> "string"]],
    output |-> [temperature |-> [type |-> "number"]] ]

\* policies with and without a schema of their own
DiscoveryPolicies ==
  { policies[i] : i \in 1..Len(policies) }
  \cup { ioSchema(policies[i], WeatherSchema) : i \in 1..Len(policies) }

PublicBaseUrls ==
  { <<"https://api.example.com">>, <<"https://api.example.com", "/">>,
    <<"https://api.example.com", "/", "/">> }

\* GET /.well-known/x402 for a registry holding the policies `all`
Discovery(all, publicBaseUrl) ==
  /\ probe = None
  /\ cur = 0 /\ \A r \in ReqIds : reqs[r].pc = "idle"
  /\ probe' = Some([ policies |-> all, publicBaseUrl |-> publicBaseUrl,
                     doc |-> generateDiscovery(all, publicBaseUrl) ])
  /\ UNCHANGED <<now, mockPayments, replayNonces, idempotencyCache, reqs, cur>>

NextDiscovery ==
  \E n \in 0..MaxPolicies : \E all \in [1..n -> DiscoveryPolicies] :
    \E publicBaseUrl \in PublicBaseUrls : Discovery(all, publicBaseUrl)

SpecDiscovery == InitValidate /\ [][NextDiscovery]_vars

\* A TtlCache on its own: set, get, has, delete, clear and the sweep timer, as
\* the clock advances.  `written` remembers for each key its last set (value,
\* time and TTL) unless a delete or clear followed it; `last` is the last read
\* and what it returned.
CacheKeys == {"a", "b"}

CacheValues == {"hello", "world"}

CacheTtls == {0, ReplayTtl, IdempotencyTtl}

NewCache ==
  [ store |-> <<>>, written |-> [k \in CacheKeys |-> None], last |-> None ]

Cache == IF IsSome(probe) THEN probe[1] ELSE NewCache

CacheStep(next) ==
  /\ cur = 0 /\ \A r \in ReqIds : reqs[r].pc = "idle"
  /\ probe' = Some(next)
  /\ UNCHANGED <<now, mockPayments, replayNonces, idempotencyCache, reqs, cur>>

CacheSet(key, value, ttlMs) ==
  CacheStep([ store |-> TtlSet(Cache.store, key, value, ttlMs, now),
              written |-> [Cache.written EXCEPT ![key] =
                             Some([value |-> value, at |-> now, ttlMs |-> ttlMs])],
              last |-> None ])

CacheGet(key) ==
  CacheStep([ store |-> TtlGetStore(Cache.store, key, now),
              written |-> Cache.written,
              last |-> Some([op |-> "get", key |-> key, at |-> now,
                             got |-> TtlGet(Cache.store, key, now)]) ])

CacheHas(key) ==
  CacheStep([ store |-> TtlGetStore(Cache.store, key, now),
              written |-> Cache.written,
              last |-> Some([op |-> "has", key |-> key, at |-> now,
                             got |-> TtlHas(Cache.store, key, now)]) ])

CacheDelete(key) ==
  CacheStep([ store |-> Without(Cache.store, key),
              written |-> [Cache.written EXCEPT ![key] = None],
              last |-> None ])

CacheClear ==
  CacheStep([ store |-> <<>>, written |-> [k \in CacheKeys |-> None],
              last |-> None ])

CacheSweep ==
  CacheStep([ store |-> TtlSweep(Cache.store, now), written |-> Cache.written,
              last |-> None ])

\* time passes between two calls
CacheTick ==
  /\ cur = 0 /\ \A r \in ReqIds : reqs[r].pc = "idle"
  /\ now + TickMin <= MaxTime
  /\ now' = now + TickMin
  /\ probe' = Some([Cache EXCEPT !.last = None])
  /\ UNCHANGED <<mockPayments, replayNonces, idempotencyCache, reqs, cur>>

NextCache ==
  \/ \E key \in CacheKeys : \E value \in CacheValues : \E ttlMs \in CacheTtls :
       CacheSet(key, value, ttlMs)
  \/ \E key \in CacheKeys : CacheGet(key)
  \/ \E key \in CacheKeys : CacheHas(key)
  \/ \E key \in CacheKeys : CacheDelete(key)
  \/ CacheClear
  \/ CacheSweep
  \/ CacheTick

SpecCache == InitValidate /\ [][NextCache]_vars

\* A TtlCache with its sweeper: the calls of SpecCache, size, destroy, and
\* the sweep the constructor's setInterval runs while `timer` is set.
NewTtlCache ==
  [ store |-> <<>>, written |-> [k \in CacheKeys |-> None], last |-> None,
    timer |-> TRUE ]

TtlCache == IF IsSome(probe) THEN probe[1] ELSE NewTtlCache

\* a call on the cache that leaves it with store `store` and returns `last`
TtlCacheCall(store, written, last) ==
  CacheStep([TtlCache EXCEPT !.store = store, !.written = written, !.last = last])

TtlCacheSet(key, value, ttlMs) ==
  TtlCacheCall(TtlSet(TtlCache.store, key, value, ttlMs, now),
               [TtlCache.written EXCEPT ![key] =
                  Some([value |-> value, at |-> now, ttlMs |-> ttlMs])],
               None)

TtlCacheGet(key) ==
  TtlCacheCall(TtlGetStore(TtlCache.store, key, now), TtlCache.written,
               Some([op |-> "get", key |-> key, at |-> now,
                     got |-> TtlGet(TtlCache.store, key, now)]))

TtlCacheHas(key) ==
  TtlCacheCall(TtlGetStore(TtlCache.store, key, now), TtlCache.written,
               Some([op |-> "has", key |-> key, at |-> now,
                     got |-> TtlHas(TtlCache.store, key, now)]))

TtlCacheDelete(key) ==
  TtlCacheCall(Without(TtlCache.store, key),
               [TtlCache.written EXCEPT ![key] = None], None)

\* get size(): this.sweep(), then the size of the map
TtlCacheSize ==
  TtlCacheCall(TtlSweep(TtlCache.store, now), TtlCache.written,
               Some([op |-> "size", at |-> now,
                     got |-> Cardinality(DOMAIN TtlSweep(TtlCache.store, now))]))

TtlCacheSweep ==
  TtlCacheCall(TtlSweep(TtlCache.store, now), TtlCache.written,
               Some([op |-> "sweep", at |-> now]))

\* the callback of setInterval(() => this.sweep(), 60_000)
TtlCacheInterval ==
  /\ TtlCache.timer
  /\ TtlCacheCall(TtlSweep(TtlCache.store, now), TtlCache.written,
                  Some([op |-> "interval", at |-> now]))

\* destroy(): clearInterval(this.sweepTimer)
TtlCacheDestroy ==
  CacheStep([TtlCache EXCEPT !.timer = FALSE, !.last = None])

TtlCacheTick ==
  /\ cur = 0 /\ \A r \in ReqIds : reqs[r].pc = "idle"
  /\ now + TickMin <= MaxTime
  /\ now' = now + TickMin
  /\ probe' = Some([TtlCache EXCEPT !.last = None])
  /\ UNCHANGED <<mockPayments, replayNonces, idempotencyCache, reqs, cur>>

NextTtlCache ==
  \/ \E key \in CacheKeys : \E ttlMs \in CacheTtls : TtlCacheSet(key, "hello", ttlMs)
  \/ \E key \in CacheKeys : TtlCacheGet(key)
  \/ \E key \in CacheKeys : TtlCacheHas(key)
  \/ \E key \in CacheKeys : TtlCacheDelete(key)
  \/ TtlCacheSize
  \/ TtlCacheSweep
  \/ TtlCacheInterval
  \/ TtlCacheDestroy
  \/ TtlCacheTick

SpecTtlCache == InitValidate /\ [][NextTtlCache]_vars

\* The buyer's wrapFetch on its own: one call, its two requests answered by
\* whatever a server may answer.  `log` lists the requests sent ("fetch") and
\* the hooks fired, in order.
\* fromBase64 of signer.ts: None when JSON.parse throws
fromBase64(encoded) == JsonParse(Base64Decode(encoded))

\* buildPaymentPayload(accept, account) with the nonce generateNonce() drew
buildPaymentPayload(accept, nonce) ==
  [ x402Version |-> 2, scheme |-> accept.scheme, network |-> accept.network,
    asset |-> accept.asset, payTo |-> accept.payTo,
    amount |-> accept.maxAmountRequired, nonce |-> nonce, signature |-> "sig",
    resource |-> accept.resource, memo |-> None ]

HookNames == {"on402", "onSign", "onPaid"}

\* hooks?.name?.(...): the log after the hook, when the caller installed it
Fire(call, name) == IF name \in call.hooks THEN Append(call.log, name) ELSE call.log

\* what a first request is answered: no offer, the gateway's 402, a 402 with
\* the offer in its body only, with an offer that accepts nothing, or with a
\* header that is not base64 JSON
FirstResponses ==
  { [status |-> 200, headers |-> NoHeaders, body |-> [city |-> "Tokyo"]],
    [status |-> 500, headers |-> NoHeaders, body |-> [error |-> "boom"]],
    [status |-> 402, headers |-> SetHeader(NoHeaders, X402_REQUIRED, toBase64(<<123>>)),
     body |-> [error |-> "boom"]],
    [status |-> 402, headers |-> NoHeaders, body |-> [x402Version |-> 2, accepts |-> <<>>]] }
  \cup UNION { { [status |-> 402,
                  headers |-> SetHeader(NoHeaders, X402_REQUIRED,
                                        toBase64(StringifyRequirements(
                                          buildRequirements(buildAccept(pol))))),
                  body |-> buildRequirements(buildAccept(pol))],
                 [status |-> 402, headers |-> NoHeaders,
                  body |-> buildRequirements(buildAccept(pol))] } :
               pol \in AllRoutes }

\* what the retry is answered: the paid response with its receipt, a response
\* without receipt, a rejection, or a payment-response header that is empty
\* or is not base64 JSON
RetryResponses(payload) ==
  { [status |-> 200,
     headers |-> SetHeader(NoHeaders, X402_RESPONSE,
                           toBase64(StringifyReceipt(MockReceipt(payload)))),
     body |-> [success |-> TRUE]],
    [status |-> 200, headers |-> NoHeaders, body |-> [city |-> "Tokyo"]],
    [status |-> 400, headers |-> NoHeaders, body |-> Err(<<"Insufficient payment">>)],
    [status |-> 402, headers |-> NoHeaders, body |-> Err(<<"payment required">>)],
    [status |-> 200, headers |-> SetHeader(NoHeaders, X402_RESPONSE, <<>>),
     body |-> [city |-> "Tokyo"]],
    [status |-> 200, headers |-> SetHeader(NoHeaders, X402_RESPONSE, toBase64(<<123>>)),
     body |-> [city |-> "Tokyo"]] }

\* x402(url): the initial request is sent (wrapFetch 85-88)
WrapFetchCall(hooks) ==
  /\ probe = None
  /\ cur = 0 /\ \A r \in ReqIds : reqs[r].pc = "idle"
  /\ probe' = Some([ pc |-> "awaitFirst", hooks |-> hooks, log |-> <<"fetch">>,
                     first |-> None, retry |-> None, payload |-> None,
                     result |-> None ])
  /\ UNCHANGED <<now, mockPayments, replayNonces, idempotencyCache, reqs, cur>>

\* the initial request is answered (wrapFetch 90-122)
WrapFetchFirst(response, nonce) ==
  /\ IsSome(probe) /\ "pc" \in DOMAIN probe[1] /\ probe[1].pc = "awaitFirst"
  /\ LET call == [probe[1] EXCEPT !.first = Some(response)]
          headerValue == Header(response.headers, X402_REQUIRED)
          requirements ==
            IF IsSome(headerValue) /\ Len(headerValue[1]) > 0
              THEN fromBase64(headerValue[1])
              ELSE Some(response.body)
      IN IF response.status # 402
           THEN probe' = Some([call EXCEPT !.pc = "returned",
                                 !.result = Some([ response |-> response,
                                                   paid |-> FALSE,
                                                   receipt |-> None ])])
         ELSE IF ~IsSome(requirements)
           THEN probe' = Some([call EXCEPT !.pc = "thrown"])
         ELSE IF Len(requirements[1].accepts) = 0
           THEN \* pickAccept throws
             probe' = Some([call EXCEPT !.pc = "thrown", !.log = Fire(call, "on402")])
         ELSE LET payload == buildPaymentPayload(requirements[1].accepts[1], nonce)
                  signed == [call EXCEPT !.log = Fire(call, "on402")]
              IN probe' = Some([signed EXCEPT
                                  !.pc = "awaitRetry", !.payload = Some(payload),
                                  !.log = Append(Fire(signed, "onSign"), "fetch")])
  /\ UNCHANGED <<now, mockPayments, replayNonces, idempotencyCache, reqs, cur>>

\* (mutant) the receipt is read but onPaid is not fired
WrapFetchRetry_Silent(response) ==
  /\ IsSome(probe) /\ "pc" \in DOMAIN probe[1] /\ probe[1].pc = "awaitRetry"
  /\ response \in RetryResponses(probe[1].payload[1])
  /\ LET call == [probe[1] EXCEPT !.retry = Some(response)]
          receiptHeader == Header(response.headers, X402_RESPONSE)
          hasReceipt == IsSome(receiptHeader) /\ Len(receiptHeader[1]) > 0
      IN IF hasReceipt /\ ~IsSome(fromBase64(receiptHeader[1]))
           THEN probe' = Some([call EXCEPT !.pc = "thrown"])
           ELSE probe' =
                  Some([call EXCEPT
                          !.pc = "returned",
                          !.log = call.log,
                          !.result =
                            Some([ response |-> response, paid |-> TRUE,
                                   receipt |-> IF hasReceipt
                                                 THEN fromBase64(receiptHeader[1])
                                                 ELSE None ])])
  /\ UNCHANGED <<now, mockPayments, replayNonces, idempotencyCache, reqs, cur>>

\* the retry is answered (wrapFetch 124-142)
WrapFetchRetry(response) ==
  /\ IsSome(probe) /\ "pc" \in DOMAIN probe[1] /\ probe[1].pc = "awaitRetry"
  /\ response \in RetryResponses(probe[1].payload[1])
  /\ LET call == [probe[1] EXCEPT !.retry = Some(response)]
          receiptHeader == Header(response.headers, X402_RESPONSE)
          hasReceipt == IsSome(receiptHeader) /\ Len(receiptHeader[1]) > 0
      IN IF hasReceipt /\ ~IsSome(fromBase64(receiptHeader[1]))
           THEN probe' = Some([call EXCEPT !.pc = "thrown"])
           ELSE probe' =
                  Some([call EXCEPT
                          !.pc = "returned",
                          !.log = IF hasReceipt THEN Fire(call, "onPaid") ELSE call.log,
                          !.result =
                            Some([ response |-> response, paid |-> TRUE,
                                   receipt |-> IF hasReceipt
                                                 THEN fromBase64(receiptHeader[1])
                                                 ELSE None ])])
  /\ UNCHANGED <<now, mockPayments, replayNonces, idempotencyCache, reqs, cur>>

NextWrapFetch ==
  \/ \E hooks \in SUBSET HookNames : WrapFetchCall(hooks)
  \/ \E response \in FirstResponses : \E nonce \in {"n1", "n2"} :
       WrapFetchFirst(response, nonce)
  \/ \E response \in UNION { RetryResponses(OfferPayload(pol, nonce, None,
                                                           DecVal(pol.maxAmountRequired))) :
                                pol \in AllRoutes, nonce \in {"n1", "n2"} } :
       WrapFetchRetry(response)

SpecWrapFetch == InitValidate /\ [][NextWrapFetch]_vars

\* The header encoding on its own: an object is written with toBase64 and
\* read back as the other side reads it.
\* the object a record with an optional field stands for: a property that is
\* undefined is no property
Plain(obj, opt) ==
  [f \in DOMAIN obj \ (IF IsSome(obj[opt]) THEN {} ELSE {opt}) |->
     IF f = opt THEN obj[opt][1] ELSE obj[f]]

\* the offers the gateway emits
CodecRequirements == {buildRequirements(buildAccept(pol)) : pol \in AllRoutes}

\* the payloads a client may sign for them
CodecPayloads ==
  { Deviate(OfferPayload(pol, nonce, memo, amount), D) :
      pol \in AllRoutes, nonce \in {"n1", "n2", "a:b"},
      memo \in {None, Some("m1"), Some("")},
      amount \in {0, 10, AMOUNT_MICROSTX}, D \in {{}, {"scheme"}} }

\* the receipts of mock mode and of live mode
CodecReceipts ==
  { MockReceipt(payload) : payload \in CodecPayloads }
  \cup { LiveReceipt([payer |-> "ST1PAYER", amount |-> DecStr(amount)],
                     [txHash |-> txHash, network |-> NETWORK,
                      timestamp |-> timestamp, settled |-> settled]) :
           amount \in {0, 10, AMOUNT_MICROSTX},
           txHash \in {None, Some("0xabc")},
           timestamp \in {0, TickMin, MaxTime}, settled \in BOOLEAN }

RoundTrip(kind, original, encoded, decoded) ==
  /\ probe = None
  /\ probe' = Some([ kind |-> kind, original |-> original, encoded |-> encoded,
                     decoded |-> decoded ])
  /\ UNCHANGED <<now, mockPayments, replayNonces, idempotencyCache, reqs, cur>>

\* the 402's header, read as the client reads it
RoundTripRequirements(q) ==
  LET encoded == toBase64(StringifyRequirements(q))
  IN RoundTrip("requirements", q, encoded, fromBase64(encoded))

\* the payment-signature header, read as validateSignature reads it
RoundTripPayload(p) ==
  LET encoded == toBase64(StringifyPayload(p))
      decoded == decodePayload(encoded)
  IN RoundTrip("payload", Plain(p, "memo"), encoded,
               IF IsSome(decoded) THEN Some(decoded[1].val) ELSE None)

\* the payment-response header, read as the client reads it
RoundTripReceipt(c) ==
  LET encoded == toBase64(StringifyReceipt(c))
  IN RoundTrip("receipt", Plain(c, "txHash"), encoded, fromBase64(encoded))

NextCodec ==
  \/ \E q \in CodecRequirements : RoundTripRequirements(q)
  \/ \E p \in CodecPayloads : RoundTripPayload(p)
  \/ \E c \in CodecReceipts : RoundTripReceipt(c)

SpecCodec == InitValidate /\ [][NextCodec]_vars

\* Mock mode, proxy requests whose paths and idempotency keys may hold a colon.
KeyRoutes ==
  { [method |-> "GET", path |-> "/proxy/api/weather"],
    [method |-> "GET", path |-> "/proxy/api/weather:x"],
    [method |-> "GET", path |-> "/proxy/free"] }

KeyTokens == {Some("k1"), Some("x:k1")}

InputsKeys ==
  UNION { { [ method |-> route.method, path |-> route.path, signed |-> signed,
              headers |-> ClientHeaders(token, IF IsSome(signed)
                                                 THEN Some(Sig(signed[1])) ELSE None) ] :
              token \in KeyTokens, signed \in {None, Some(ProxyPayload(route))} } :
          route \in KeyRoutes }

NextKeys ==
  \/ \E r \in ReqIds : \E in \in InputsKeys :
       Arrive(r, in.method, in.path, in.headers, in.signed)
  \/ \E r \in ReqIds : idempotency(r)
  \/ \E r \in ReqIds : validateSignature(r)
  \/ \E r \in ReqIds : replayProtection(r)
  \/ \E r \in ReqIds : paymentRequired(r)
  \/ \E r \in ReqIds : proxyHandler(r)
  \/ \E r \in ReqIds : \E a \in UpstreamAnswers : upstreamResponse(r, a)
  \/ Tick
  \/ sweepNonces
  \/ sweepIdempotency

SpecKeys == InitValidate /\ [][NextKeys]_vars

\* Mock mode, the weather route asked for as the policy names it and as
\* variants the router sends to the same handler.
VariantRoutes ==
  { [method |-> method, path |-> path] :
      method \in {"GET", "HEAD"},
      path \in {"/proxy/api/weather", "/PROXY/api/weather", "/proxy/api/weather/"} }

InputsVariants ==
  { [ method |-> route.method, path |-> route.path, signed |-> signed,
      headers |-> ClientHeaders(None, IF IsSome(signed) THEN Some(Sig(signed[1]))
                                      ELSE None) ] :
      route \in VariantRoutes,
      signed \in {None, Some(ProxyPayload([method |-> "GET",
                                           path |-> "/proxy/api/weather"]))} }

NextVariants ==
  \/ \E r \in ReqIds : \E in \in InputsVariants :
       Arrive(r, in.method, in.path, in.headers, in.signed)
  \/ \E r \in ReqIds : idempotency(r)
  \/ \E r \in ReqIds : validateSignature(r)
  \/ \E r \in ReqIds : replayProtection(r)
  \/ \E r \in ReqIds : paymentRequired(r)
  \/ \E r \in ReqIds : proxyHandler(r)
  \/ \E r \in ReqIds : \E a \in UpstreamAnswers : upstreamResponse(r, a)
  \/ Tick
  \/ sweepNonces
  \/ sweepIdempotency

SpecVariants == InitValidate /\ [][NextVariants]_vars

\* Mock mode, one payment sent again and again, minute by minute.
Minute ==
  /\ cur = 0
  /\ reqs[1].pc # "idle"
  /\ now + 1 <= MaxTime
  /\ now' = now + 1
  /\ UNCHANGED <<mockPayments, probe, replayNonces, idempotencyCache, reqs, cur>>

InputsExpiry ==
  { ClientRequest(findPolicy("/v1/premium/echo", "GET")[1], None,
                  Some(OfferPayload(findPolicy("/v1/premium/echo", "GET")[1], nonce,
                                    None, AMOUNT_MICROSTX))) :
      nonce \in {"n1", "n2"} }

NextExpiry ==
  \/ \E r \in ReqIds : \E in \in InputsExpiry :
       Arrive(r, in.method, in.path, in.headers, in.signed)
  \/ \E r \in ReqIds : idempotency(r)
  \/ \E r \in ReqIds : validateSignature(r)
  \/ \E r \in ReqIds : replayProtection(r)
  \/ \E r \in ReqIds : paymentRequired(r)
  \/ \E r \in ReqIds : premiumEcho(r)
  \/ Minute
  \/ sweepNonces

SpecExpiry == InitValidate /\ [][NextExpiry]_vars

\* The gateway with its scheduling.
\* requests with or without a payment for the two GET routes
InputsLive ==
  UNION { { ClientRequest(pol, None, signed) :
              signed \in {None, Some(OfferPayload(pol, "n1", None,
                                                  DecVal(pol.maxAmountRequired)))} } :
          pol \in PricedRoutes }

NextLive ==
  \/ \E r \in ReqIds : \E in \in InputsLive :
       Arrive(r, in.method, in.path, in.headers, in.signed)
  \/ \E r \in ReqIds : idempotency(r)
  \/ \E r \in ReqIds : validateSignature(r)
  \/ \E r \in ReqIds : replayProtection(r)
  \/ \E r \in ReqIds : paymentRequired(r)
  \/ \E r \in ReqIds : \E a \in VerifyAnswers(reqs[r]) : verifyPayment(r, a)
  \/ \E r \in ReqIds : \E a \in SettleAnswers : settlePayment(r, a)
  \/ \E r \in ReqIds : premiumEcho(r)
  \/ \E r \in ReqIds : proxyHandler(r)
  \/ \E r \in ReqIds : \E a \in UpstreamAnswers : upstreamResponse(r, a)
  \/ Tick

\* the answer to the call request r awaits
AnswerOf(r) ==
  \/ \E a \in VerifyAnswers(reqs[r]) : verifyPayment(r, a)
  \/ \E a \in SettleAnswers : settlePayment(r, a)
  \/ \E a \in UpstreamAnswers : upstreamResponse(r, a)

\* the middleware chain of a request runs in one callback, which returns: no
\* request stays the running one for ever; and every call is answered
Scheduling ==
  \A r \in ReqIds : []<>(cur # r) /\ WF_vars(AnswerOf(r))

SpecLive == Init /\ [][NextLive]_vars /\ Scheduling

\* The amount test on its own.  Amounts lists amounts of micro-STX in ascending
\* order of value (rank), as the digits of their decimal text: the amounts of
\* the registered offers and their neighbours, one with a leading zero, and
\* amounts at and above 2^53.
Amounts ==
  << [rank |-> 0, digits |-> <<0>>],
     [rank |-> 1, digits |-> <<9>>],
     [rank |-> 2, digits |-> <<1, 0>>],
     [rank |-> 3, digits |-> <<4, 9>>],
     [rank |-> 4, digits |-> <<5, 0>>],
     [rank |-> 5, digits |-> <<9, 9, 9, 9, 9>>],
     [rank |-> 6, digits |-> <<1, 0, 0, 0, 0, 0>>],
     [rank |-> 6, digits |-> <<0, 1, 0, 0, 0, 0, 0>>],
     [rank |-> 7, digits |-> <<9, 9, 9, 9, 9, 9>>],
     [rank |-> 8, digits |-> <<9, 0, 0, 7, 1, 9, 9, 2, 5, 4, 7, 4, 0, 9, 9, 2>>],
     [rank |-> 9, digits |-> <<9, 0, 0, 7, 1, 9, 9, 2, 5, 4, 7, 4, 0, 9, 9, 3>>],
     [rank |-> 10, digits |-> <<1, 8, 4, 4, 6, 7, 4, 4, 0, 7, 3, 7, 0, 9, 5, 5,
                                1, 6, 1, 5>>],
     [rank |-> 11, digits |-> <<1, 8, 4, 4, 6, 7, 4, 4, 0, 7, 3, 7, 0, 9, 5, 5,
                                1, 6, 1, 6>>] >>

AmountText(a) == [dec |-> [i \in 1..Len(a.digits) |-> 48 + a.digits[i]]]

\* the gateway tests the amount paid against the amount offered
AmountTest(paid, offered) ==
  /\ probe' = Some([ paid |-> paid, offered |-> offered,
                     outcome |-> checkAmount(AmountText(Amounts[paid]),
                                             AmountText(Amounts[offered])) ])
  /\ UNCHANGED <<now, mockPayments, replayNonces, idempotencyCache, reqs, cur>>

NextAmount ==
  \E paid, offered \in 1..Len(Amounts) : AmountTest(paid, offered)

SpecAmount == Init /\ [][NextAmount]_vars

\* Mock mode, payment-signature headers that are not a well-formed payload.
\* The members of a payload's JSON text, by field
PayloadMembers(p) ==
  [f \in {PAYMENT_PAYLOAD_REQUIRED_FIELDS[i] :
             i \in 1..Len(PAYMENT_PAYLOAD_REQUIRED_FIELDS)} |->
     CASE f = "x402Version" -> EncNum(p[f])
       [] f = "amount" -> EncDec(p[f])
       [] OTHER -> EncStr(p[f])]

\* the JSON object with the members m, in the order of the required fields
EncMembers(m) ==
  LET present == SelectSeq(PAYMENT_PAYLOAD_REQUIRED_FIELDS, LAMBDA f : f \in DOMAIN m)
  IN EncObj([i \in 1..Len(present) |-> EncField(present[i], m[present[i]])])

StringFields ==
  {"scheme", "network", "asset", "payTo", "nonce", "signature", "resource"}

\* what is wrong with the header, and the text that is base64-encoded into it
MalformedTexts(pol) ==
  LET m == PayloadMembers(OfferPayload(pol, "n1", None, DecVal(pol.maxAmountRequired)))
      with(f, bytes) == [g \in DOMAIN m |-> IF g = f THEN bytes ELSE m[g]]
  IN { [why |-> "not JSON", text |-> <<123>>],
       [why |-> "null", text |-> <<110>>],
       [why |-> "number", text |-> EncNum(5)],
       [why |-> "string", text |-> EncStr("sig")],
       [why |-> "boolean", text |-> EncBool(TRUE)],
       [why |-> "array", text |-> EncArr(<<>>)],
       [why |-> "no fields", text |-> EncObj(<<>>)],
       [why |-> "version", text |-> EncMembers(with("x402Version", EncNum(1)))],
       [why |-> "amount", text |-> EncMembers(with("amount", <<34, 49, 46, 53, 34>>))],
       [why |-> "amount", text |-> EncMembers(with("amount", <<34, 49, 101, 51, 34>>))],
       [why |-> "empty", text |-> EncMembers(with("amount", <<34, 34>>))] }
     \cup { [why |-> "missing", text |-> EncMembers([g \in DOMAIN m \ {f} |-> m[g]])] :
              f \in DOMAIN m }
     \cup { [why |-> "empty", text |-> EncMembers(with(f, EncStr("")))] :
              f \in StringFields }
     \cup { [why |-> "empty", text |-> EncMembers(with(f, <<110>>))] :
              f \in StringFields }

InputsMalformed ==
  UNION { { [ method |-> pol.method, path |-> pol.path,
              signed |-> Some([malformed |-> t.why]),
              headers |-> ClientHeaders(None, Some(toBase64(t.text))) ] :
              t \in MalformedTexts(pol) } :
          pol \in PricedRoutes }

NextMalformed ==
  \/ \E r \in ReqIds : \E in \in InputsMalformed :
       Arrive(r, in.method, in.path, in.headers, in.signed)
  \/ \E r \in ReqIds : idempotency(r)
  \/ \E r \in ReqIds : validateSignature(r)
  \/ Tick

SpecMalformed == InitValidate /\ [][NextMalformed]_vars

\* Mock mode, payments of the echo offer whose nonce and memo are drawn from
\* strings with and without the separator of the nonce key.
NoncePayloads(pol) ==
  { OfferPayload(pol, nonce, memo, DecVal(pol.maxAmountRequired)) :
      nonce \in {"a", "a:b"}, memo \in {None, Some("b"), Some("m1")} }

InputsNonce ==
  { ClientRequest(findPolicy("/v1/premium/echo", "GET")[1], None, Some(p)) :
      p \in NoncePayloads(findPolicy("/v1/premium/echo", "GET")[1]) }

NextNonce ==
  \/ \E r \in ReqIds : \E in \in InputsNonce :
       Arrive(r, in.method, in.path, in.headers, in.signed)
  \/ \E r \in ReqIds : idempotency(r)
  \/ \E r \in ReqIds : validateSignature(r)
  \/ \E r \in ReqIds : replayProtection(r)
  \/ \E r \in ReqIds : paymentRequired(r)
  \/ \E r \in ReqIds : premiumEcho(r)
  \/ Tick
  \/ sweepNonces
  \/ sweepIdempotency

SpecNonce == InitValidate /\ [][NextNonce]_vars

\* ------------------------------------------------------------ properties
Done(r) == reqs[r].pc = "done"

HasSignature(r) == X402_SIGNATURE \in DOMAIN reqs[r].headers

\* the registered policy for request r's path and method, if any
PolicyOf(r) ==
  { policies[i] : i \in { j \in 1..Len(policies) :
                            /\ policies[j].path = reqs[r].path
                            /\ policies[j].method = reqs[r].method } }

Priced(r) == reqs[r].pc # "idle" /\ PolicyOf(r) # {}

HandlerEntered(r) ==
  \E i \in 1..Len(reqs[r].entered) :
    reqs[r].entered[i] \in {"premiumEcho", "proxyHandler"}

Replayed(r) == Done(r) /\ reqs[r].answeredBy = "idempotency"

Is2xx(r) == Done(r) /\ reqs[r].status >= 200 /\ reqs[r].status < 300

\* the 402 of request r is the offer of policy P, in header and body
Is402Offer(r, P) ==
  LET rq == reqs[r]
      decoded == JsonParse(Base64Decode(rq.resHeaders[X402_REQUIRED]))
  IN /\ rq.status = 402
     /\ X402_REQUIRED \in DOMAIN rq.resHeaders
     /\ decoded = rq.body
     /\ rq.body[1].x402Version = 2
     /\ Len(rq.body[1].accepts) = 1
     /\ rq.body[1].accepts[1] =
          [ scheme |-> P.scheme, network |-> P.network,
            maxAmountRequired |-> P.maxAmountRequired,
            resource |-> ResourceUrl(P.path), description |-> P.description,
            mimeType |-> P.mimeType, payTo |-> P.payTo,
            maxTimeoutSeconds |-> P.maxTimeoutSeconds, asset |-> P.asset ]

\* C1 as stated: every request to a policy's path and method without a
\* payment-signature header is answered 402 with that policy's offer.
C1_Always402 ==
  \A r \in ReqIds : \A P \in PolicyOf(r) :
    (Done(r) /\ ~HasSignature(r)) => Is402Offer(r, P)

\* C1 (amended): a request to a policy's path and method without a
\* payment-signature header never reaches the handler stage, and unless it is
\* answered from the idempotency cache it is answered 402; the payment-required
\* header decodes to the JSON body, which has x402Version 2 and exactly one
\* accepts entry carrying the policy's nine values.
C1_NoSignature402 ==
  \A r \in ReqIds : \A P \in PolicyOf(r) :
    ~HasSignature(r) =>
      /\ ~HandlerEntered(r)
      /\ reqs[r].pc \notin {"handler", "awaitUpstream"}
      /\ reqs[r].upstream = None
      /\ (Done(r) /\ ~Replayed(r)) => Is402Offer(r, P)

C1_Witness ==
  \E r \in ReqIds : \E P \in PolicyOf(r) :
    /\ Done(r) /\ ~HasSignature(r) /\ ~Replayed(r)
    /\ P.path = "/proxy/api/summarize"
    /\ Is402Offer(r, P)

\* the payload the client of request r signed
PayloadOf(r) == reqs[r].signed[1]

\* the offer fields in which r's payload differs from policy P
Deviation(r, P) == {f \in OfferFields : PayloadOf(r)[f] # P[f]}

Sufficient(r, P) == DecVal(PayloadOf(r).amount) >= DecVal(P.maxAmountRequired)

SamePair(q, r) ==
  /\ HasSignature(q) /\ HasSignature(r)
  /\ PayloadOf(q).nonce = PayloadOf(r).nonce
  /\ PayloadOf(q).memo = PayloadOf(r).memo

\* no earlier request carried r's (nonce, memo)
FreshNonce(r) == \A q \in ReqIds : q < r => ~SamePair(q, r)

\* the 400 of request r reports exactly the fields of D
ReportsMismatches(r, D) ==
  LET error == reqs[r].body[1].error IN
    /\ reqs[r].status = 400
    /\ error[1] = "does not match offer"
    /\ Len(error) = 1 + Cardinality(D)
    /\ {error[i] : i \in 2..Len(error)} = D

Passed(r) == reqs[r].noncePassed = Some(TRUE)

\* the nonce key of the payload request r had validated
NonceKeyOf(r) == extractNonceKey(reqs[r].paymentPayload[1])

Rejected(r) == reqs[r].noncePassed = Some(FALSE)

\* q and r were submitted within the replay TTL of each other
WithinReplayTtl(q, r) ==
  /\ reqs[q].at - reqs[r].at < ReplayTtl
  /\ reqs[r].at - reqs[q].at < ReplayTtl

\* C3 as stated: of the requests submitted within the replay TTL that carry
\* the same (nonce, memo), at most one receives a 2xx response.
C3_AsStated ==
  \A q, r \in ReqIds :
    (q # r /\ SamePair(q, r) /\ WithinReplayTtl(q, r))
      => ~(Is2xx(q) /\ Is2xx(r))

\* C3 (amended): of the requests submitted within the replay TTL that carry
\* the same (nonce, memo), on any route and with or without an
\* idempotency-key, at most one receives a 2xx response that is not the replay
\* of a response stored in the idempotency cache.
C3_OneSuccess ==
  \A q, r \in ReqIds :
    (q # r /\ SamePair(q, r) /\ WithinReplayTtl(q, r))
      => ~(Is2xx(q) /\ ~Replayed(q) /\ Is2xx(r) /\ ~Replayed(r))

C3_Witness ==
  \E q, r \in ReqIds :
    /\ q # r /\ SamePair(q, r) /\ WithinReplayTtl(q, r)
    /\ reqs[q].path # reqs[r].path
    /\ DOMAIN reqs[q].sent # DOMAIN reqs[r].sent
    /\ Is2xx(q) /\ ~Replayed(q)
    /\ Done(r) /\ reqs[r].status = 409

\* C4: of the requests with the same (nonce, memo) that reach the replay
\* stage within the replay TTL, in any interleaving, one passes on to the
\* payment gate and every other one is answered 409 by the replay stage.
C4_ExactlyOnePasses ==
  \A r \in ReqIds :
    /\ Passed(r) =>
         /\ \A q \in ReqIds :
              (q # r /\ SamePair(q, r) /\ Passed(q)) => ~WithinReplayTtl(q, r)
         /\ \/ Running(r, "paymentRequired")
            \/ \E i \in 1..Len(reqs[r].entered) :
                 reqs[r].entered[i] = "paymentRequired"
    /\ Rejected(r) =>
         /\ Done(r) /\ reqs[r].status = 409
         /\ reqs[r].answeredBy = "replayProtection"
         /\ \E q \in ReqIds :
              /\ q # r /\ Passed(q) /\ NonceKeyOf(q) = NonceKeyOf(r)
              /\ reqs[q].at <= reqs[r].at
              /\ reqs[r].at < reqs[q].at + ReplayTtl

C4_Witness ==
  \E q, r \in ReqIds :
    /\ q # r /\ SamePair(q, r)
    /\ Passed(q) /\ reqs[q].pc \in {"awaitVerify", "awaitSettle", "awaitUpstream"}
    /\ Rejected(r) /\ reqs[r].status = 409

\* ------------------------------------------------------- idempotency keys
Token(r) == Header(reqs[r].headers, "idempotency-key")

\* q and r carry the same (method, path, idempotency-key)
SameTriple(q, r) ==
  /\ IsSome(Token(q)) /\ Token(q) = Token(r)
  /\ toUpperCase(reqs[q].method) = toUpperCase(reqs[r].method)
  /\ reqs[q].path = reqs[r].path

SameResponse(q, r) ==
  /\ reqs[r].status = reqs[q].status
  /\ reqs[r].body = reqs[q].body
  /\ Header(reqs[r].resHeaders, X402_RESPONSE)
       = Header(reqs[q].resHeaders, X402_RESPONSE)

\* C5: once a request with a (method, path, idempotency-key) has completed
\* with a 2xx, every later request with that triple within the idempotency TTL
\* returns the same status, body and payment-response header, whatever
\* payment signature it carries.
C5_SameResponse ==
  \A q, r \in ReqIds :
    ( /\ q \in reqs[r].sawDone /\ SameTriple(q, r) /\ Is2xx(q)
      /\ reqs[r].at < reqs[q].doneAt + IdempotencyTtl
      /\ Done(r) )
      => SameResponse(q, r)

\* C6: of the requests that share a (method, path, idempotency-key) within
\* the idempotency TTL but carry different nonces, at most one passes the
\* payment gate and has a receipt minted.
C6_OneReceipt ==
  \A q, r \in ReqIds :
    ( /\ q # r /\ SameTriple(q, r)
      /\ HasSignature(q) /\ HasSignature(r)
      /\ PayloadOf(q).nonce # PayloadOf(r).nonce
      /\ reqs[r].at - reqs[q].at < IdempotencyTtl
      /\ reqs[q].at - reqs[r].at < IdempotencyTtl )
      => ~(IsSome(reqs[q].receipt) /\ IsSome(reqs[r].receipt))

\* C7: the idempotency cache never holds an entry whose status is outside
\* 200..299, so a response replayed from it is a 2xx that an earlier request
\* with the same triple received; after only failures under a key, a request
\* with that key and a valid payment is processed by the payment gate.
C7_OnlySuccessCached ==
  /\ \A k \in DOMAIN idempotencyCache :
       idempotencyCache[k].value.status \in 200..299
  /\ \A r \in ReqIds :
       /\ Replayed(r) =>
            \E q \in reqs[r].sawDone :
              SameTriple(q, r) /\ Is2xx(q) /\ SameResponse(q, r)
       /\ \A P \in PolicyOf(r) :
            ( /\ mockPayments /\ Done(r) /\ IsSome(Token(r)) /\ HasSignature(r)
              /\ Deviation(r, P) = {} /\ Sufficient(r, P) /\ FreshNonce(r)
              /\ \A q \in ReqIds \ {r} : SameTriple(q, r) => ~Is2xx(q) )
              => IsSome(reqs[r].receipt) /\ HandlerEntered(r)

C7_Witness ==
  \E q, r \in ReqIds :
    /\ q \in reqs[r].sawDone /\ SameTriple(q, r)
    /\ reqs[q].status \in {400, 402}
    /\ Done(r) /\ reqs[r].status = 200 /\ ~Replayed(r)
    /\ IsSome(reqs[r].receipt)

\* ------------------------------------------------------ upstream requests
\* the header names the upstream must never see
Withheld ==
  { "payment-required", "payment-signature", "payment-response", "host",
    "content-length", "connection", "keep-alive", "proxy-authenticate",
    "proxy-authorization", "te", "trailer", "transfer-encoding", "upgrade" }

\* C8: a request the proxy handler sends to the upstream carries none of the
\* three payment headers, nor the incoming host or content-length or another
\* hop-by-hop header, whatever the casing the client sent them in; every other
\* header the client sent is forwarded with its value.
C8_UpstreamHeaders ==
  \A r \in ReqIds :
    IsSome(reqs[r].upstream) =>
      LET up == reqs[r].upstream[1].headers
          sent == reqs[r].sent
      IN /\ \A k \in DOMAIN up : toLowerCase(k) \notin Withheld
         /\ \A n \in DOMAIN sent :
              toLowerCase(n) \notin Withheld
                => /\ toLowerCase(n) \in DOMAIN up
                   /\ up[toLowerCase(n)] = sent[n]

C8_Witness ==
  \E r \in ReqIds :
    /\ IsSome(reqs[r].upstream)
    /\ {"PAYMENT-SIGNATURE", "PAYMENT-RESPONSE", "Payment-Required"}
         \subseteq DOMAIN reqs[r].sent
    /\ DOMAIN reqs[r].upstream[1].headers = {"idempotency-key"}
    /\ \E q \in ReqIds :
         /\ IsSome(reqs[q].upstream)
         /\ {"Host", "Content-Length", "Connection", "X-Api-Key"}
              \subseteq DOMAIN reqs[q].sent
         /\ reqs[q].upstream[1].headers["x-api-key"] = "secret"

\* ------------------------------------------------------- the payment gate
\* position of stage `name` in the stages request r entered, 0 if it did not
EnteredAt(r, name) ==
  LET at == {i \in 1..Len(reqs[r].entered) : reqs[r].entered[i] = name}
  IN IF at = {} THEN 0 ELSE CHOOSE i \in at : \A j \in at : i <= j

\* request r entered its handler (the local one, or the proxy and its fetch)
InHandler(r) ==
  \/ HandlerEntered(r)
  \/ IsSome(reqs[r].upstream)
  \/ reqs[r].pc = "awaitUpstream"

\* C9: a request matching a registered policy enters the handler stage only
\* after the payment gate attached a receipt to it, and a request an earlier
\* stage answered with 400, 401, 402, 409 or 502 never contacts the upstream.
C9_ReceiptBeforeHandler ==
  \A r \in ReqIds :
    /\ (Priced(r) /\ (InHandler(r) \/ reqs[r].pc = "handler")) =>
         /\ IsSome(reqs[r].receipt)
         /\ X402_RESPONSE \in DOMAIN reqs[r].resHeaders
         /\ EnteredAt(r, "paymentRequired") > 0
         /\ HandlerEntered(r) =>
              \A h \in {"premiumEcho", "proxyHandler"} :
                EnteredAt(r, h) > 0
                  => EnteredAt(r, "paymentRequired") < EnteredAt(r, h)
    /\ ( /\ Done(r)
         /\ reqs[r].answeredBy \in {"validateSignature", "replayProtection",
                                    "paymentRequired"} ) =>
         /\ reqs[r].status \in {400, 401, 402, 409, 502}
         /\ ~InHandler(r)

C9_Witness ==
  \E q, r \in ReqIds :
    /\ Priced(r) /\ IsSome(reqs[r].upstream) /\ IsSome(reqs[r].receipt)
    /\ Done(q) /\ reqs[q].status = 502
    /\ reqs[q].answeredBy = "paymentRequired"
    /\ reqs[q].path = "/proxy/api/weather" /\ ~IsSome(reqs[q].upstream)

\* C10: in live mode the payment gate calls the facilitator's verify before
\* settle for a request; when verify answers valid = false the request is
\* answered 401, settle is never called for it, no receipt is attached and the
\* handler stage is not entered.
C10_VerifyBeforeSettle ==
  \A r \in ReqIds :
    /\ reqs[r].calls \in {<<>>, <<"verify">>, <<"verify", "settle">>}
    /\ (~mockPayments /\ IsSome(reqs[r].receipt))
         => reqs[r].calls = <<"verify", "settle">>
    /\ ( /\ IsSome(reqs[r].verified)
         /\ reqs[r].verified[1].ok
         /\ ~reqs[r].verified[1].valid ) =>
         /\ Done(r) /\ reqs[r].status = 401
         /\ reqs[r].calls = <<"verify">>
         /\ ~IsSome(reqs[r].receipt)
         /\ X402_RESPONSE \notin DOMAIN reqs[r].resHeaders
         /\ ~InHandler(r)

C10_Witness ==
  \E q, r \in ReqIds :
    /\ ~mockPayments
    /\ IsSome(reqs[r].verified) /\ reqs[r].verified[1].ok
    /\ ~reqs[r].verified[1].valid /\ reqs[r].status = 401
    /\ reqs[q].calls = <<"verify", "settle">> /\ IsSome(reqs[q].receipt)

\* ------------------------------------------------------- the facilitator
\* request r was answered 502 with the message of a failed facilitator call
FacilitatorError(r, message) ==
  /\ Done(r) /\ reqs[r].status = 502
  /\ reqs[r].answeredBy = "paymentRequired"
  /\ reqs[r].body = Some(Err(<<message, "unavailable">>))
  /\ ~IsSome(reqs[r].receipt)
  /\ X402_RESPONSE \notin DOMAIN reqs[r].resHeaders
  /\ ~InHandler(r)

\* C11: in live mode a failed verify or settle ends the request with 502
\* carrying the error text, with no receipt, no payment-response header and
\* no handler or upstream call; a request causes at most one verify call and
\* at most one settle call.
C11_FacilitatorFailure ==
  \A r \in ReqIds :
    /\ Cardinality({i \in 1..Len(reqs[r].calls) : reqs[r].calls[i] = "verify"}) <= 1
    /\ Cardinality({i \in 1..Len(reqs[r].calls) : reqs[r].calls[i] = "settle"}) <= 1
    /\ (IsSome(reqs[r].verified) /\ ~reqs[r].verified[1].ok)
         => /\ FacilitatorError(r, "Facilitator /verify failed")
            /\ reqs[r].calls = <<"verify">>
    /\ ( /\ Len(reqs[r].calls) = 2 /\ reqs[r].pc # "awaitSettle"
         /\ ~IsSome(reqs[r].receipt) )
         => FacilitatorError(r, "Facilitator /settle failed")

C11_Witness ==
  \E q, r \in ReqIds :
    /\ ~mockPayments
    /\ FacilitatorError(q, "Facilitator /verify failed")
    /\ FacilitatorError(r, "Facilitator /settle failed")

\* seconds since request r arrived, which is when its verify call began
ElapsedSeconds(r) == (now - reqs[r].at) * 60

\* C12: in live mode a facilitator call that has not returned within the
\* policy's maxTimeoutSeconds is aborted and answered 502: a request is
\* suspended on verify for at most that time after its arrival, and on settle
\* for at most twice that time.
C12_FacilitatorTimeout ==
  \A r \in ReqIds : \A P \in PolicyOf(r) :
    /\ reqs[r].pc = "awaitVerify" => ElapsedSeconds(r) <= P.maxTimeoutSeconds
    /\ reqs[r].pc = "awaitSettle" => ElapsedSeconds(r) <= 2 * P.maxTimeoutSeconds

\* C13: the nonce key of a request that passes the replay guard is recorded
\* before any facilitator call for it begins and stays recorded for the TTL,
\* also when verify is rejected (401) or verify or settle fails (502): a
\* retry with the same (nonce, memo) within the TTL is answered 409.
C13_NonceStaysConsumed ==
  \A r \in ReqIds :
    /\ Len(reqs[r].calls) > 0 => Passed(r)
    /\ (Passed(r) /\ now < reqs[r].at + ReplayTtl)
         => TtlHas(replayNonces, NonceKeyOf(r), now)
    /\ \A q \in ReqIds :
         ( /\ q < r /\ SamePair(q, r) /\ Passed(q)
           /\ reqs[q].pc \in {"awaitVerify", "awaitSettle"}
                \/ (Done(q) /\ reqs[q].status \in {401, 502})
           /\ reqs[r].noncePassed # None
           /\ reqs[r].at < reqs[q].at + ReplayTtl )
           => Rejected(r) /\ Done(r) /\ reqs[r].status = 409

C13_Witness ==
  \E q, r \in ReqIds :
    /\ q < r /\ SamePair(q, r) /\ Passed(q)
    /\ Done(q) /\ reqs[q].status = 401
    /\ q \in reqs[r].sawDone /\ reqs[r].at < reqs[q].at + ReplayTtl
    /\ Done(r) /\ reqs[r].status = 409

\* C14: the replay guard answers 409 only to a request that follows a request
\* with the same nonce and the same memo; requests whose payloads differ in
\* nonce or in memo never conflict, whatever the strings.
C14_NonceAndMemo ==
  \A r \in ReqIds :
    Rejected(r) => \E q \in ReqIds : q # r /\ SamePair(q, r) /\ Passed(q)

\* C15: the amount paid is compared with the minimum as exact integers of
\* any size: a smaller amount is refused as insufficient, an equal or larger
\* one is accepted, also where both exceed 2^53.
C15_ExactAmounts ==
  IsSome(probe) =>
    probe[1].outcome =
      IF Amounts[probe[1].paid].rank < Amounts[probe[1].offered].rank
        THEN "insufficient" ELSE "sufficient"

C15_Witness ==
  /\ IsSome(probe)
  /\ Len(Amounts[probe[1].offered].digits) = 16
  /\ Amounts[probe[1].paid].rank + 1 = Amounts[probe[1].offered].rank
  /\ probe[1].outcome = "insufficient"

\* C16: a request whose payment-signature header is not a well-formed payload
\* (not JSON, JSON that is not an object, null included, a required field
\* missing or empty, a version other than 2, an amount that is not an integer
\* string) is answered 400 and no other status, and no payload is attached.
C16_Malformed400 ==
  \A r \in ReqIds :
    HasSignature(r) =>
      /\ ~IsSome(reqs[r].paymentPayload)
      /\ reqs[r].pc \in {"idle", "idempotency", "validateSignature", "done"}
      /\ Done(r) => reqs[r].status = 400

\* C17 as stated: in mock mode the facilitator is never called, and every
\* request with a validated payload on a priced route gets a receipt with
\* settled = true, the configured network and the amount of its payload, and
\* goes on to its handler.
C17_AsStated ==
  mockPayments =>
    \A r \in ReqIds :
      /\ reqs[r].calls = <<>> /\ ~IsSome(reqs[r].verified)
      /\ (Priced(r) /\ IsSome(reqs[r].paymentPayload) /\ Done(r))
           => /\ IsSome(reqs[r].receipt)
              /\ reqs[r].receipt[1].settled
              /\ reqs[r].receipt[1].network = NETWORK
              /\ reqs[r].receipt[1].amount = PayloadOf(r).amount
              /\ InHandler(r)

\* C17 (amended): in mock mode the facilitator is never called, and every
\* request with a validated payload on a priced route that the replay guard
\* lets through gets a receipt with settled = true, the configured network and
\* the amount of its payload, and goes on to its handler.
C17_MockMode ==
  mockPayments =>
    \A r \in ReqIds :
      /\ reqs[r].calls = <<>> /\ ~IsSome(reqs[r].verified)
      /\ reqs[r].pc \notin {"awaitVerify", "awaitSettle"}
      /\ (Priced(r) /\ IsSome(reqs[r].paymentPayload) /\ Passed(r)
            /\ EnteredAt(r, "paymentRequired") > 0
            /\ ~Running(r, "paymentRequired"))
           => /\ IsSome(reqs[r].receipt)
              /\ reqs[r].receipt[1].settled
              /\ reqs[r].receipt[1].network = NETWORK
              /\ reqs[r].receipt[1].amount = PayloadOf(r).amount
              /\ X402_RESPONSE \in DOMAIN reqs[r].resHeaders
              /\ \/ Running(r, "handler")
                 \/ InHandler(r)

C17_Witness ==
  \E r \in ReqIds :
    /\ mockPayments /\ Priced(r) /\ Passed(r)
    /\ DecVal(PayloadOf(r).amount) > AMOUNT_MICROSTX
    /\ IsSome(reqs[r].receipt) /\ reqs[r].receipt[1].amount = PayloadOf(r).amount
    /\ HandlerEntered(r) /\ Done(r) /\ reqs[r].status = 200

\* request r was answered with a receipt attached to it
Paid(r) == Done(r) /\ IsSome(reqs[r].receipt)

\* C18: on every paid response, local or proxied, the payment-response header
\* is base64 of the receipt the payment gate attached to the request and, on
\* an enveloped response, decodes to what the envelope's receipt field writes;
\* no header of the upstream replaces it.
C18_ReceiptHeader ==
  \A r \in ReqIds :
    Paid(r) =>
      /\ X402_RESPONSE \in DOMAIN reqs[r].resHeaders
      /\ reqs[r].resHeaders[X402_RESPONSE]
           = toBase64(StringifyReceipt(reqs[r].receipt[1]))
      /\ "receipt" \in DOMAIN reqs[r].body[1] =>
           JsonParse(Base64Decode(reqs[r].resHeaders[X402_RESPONSE]))
             = JsonParse(StringifyReceipt(reqs[r].body[1].receipt))

\* the upstream announced a JSON body and sent one
UpstreamJson(a) ==
  /\ a.ok /\ a.headers["content-type"] = "application/json"
  /\ "invalidJson" \notin DOMAIN a

FreeUnsigned(r) ==
  reqs[r].pc # "idle" /\ PolicyOf(r) = {} /\ ~HasSignature(r)

\* the upstream's answer to request r carried header h
FromUpstream(r, h) ==
  /\ IsSome(reqs[r].relayed) /\ reqs[r].relayed[1].ok
  /\ h \in DOMAIN reqs[r].relayed[1].headers

\* what the payment stages leave alone in a request without policy and
\* signature: no 402, 401 or 409 of theirs, no receipt, no x402 header of the
\* gateway's making, no look at the nonce cache
Unbilled(r) ==
  /\ Done(r) /\ reqs[r].status \in {401, 402, 409}
       => reqs[r].answeredBy = "proxyHandler"
  /\ reqs[r].answeredBy \notin {"validateSignature", "replayProtection",
                                "paymentRequired"}
  /\ reqs[r].pc \notin {"awaitVerify", "awaitSettle"}
  /\ ~IsSome(reqs[r].receipt)
  /\ ~IsSome(reqs[r].noncePassed)
  /\ \A h \in {X402_REQUIRED, X402_RESPONSE} :
       h \in DOMAIN reqs[r].resHeaders => FromUpstream(r, h) \/ Replayed(r)

\* C20 as stated: a request that matches no policy and carries no
\* payment-signature header is never answered 402, 401 or 409 by the gateway;
\* it reaches its handler or the upstream with no receipt, no payment-required
\* or payment-response header of the gateway's and the nonce cache untouched.
C20_AsStated ==
  \A r \in ReqIds :
    FreeUnsigned(r) => Unbilled(r) /\ (Done(r) => InHandler(r))

\* C20 (amended): such a request is never answered 402, 401 or 409 by the
\* gateway; unless it is answered from the idempotency cache it reaches its
\* handler or the upstream, with no receipt, no payment-required or
\* payment-response header of the gateway's and the nonce cache untouched.
C20_FreePassThrough ==
  \A r \in ReqIds :
    FreeUnsigned(r) => Unbilled(r) /\ ((Done(r) /\ ~Replayed(r)) => InHandler(r))

C20_Witness ==
  \E q, r \in ReqIds :
    /\ q < r /\ Passed(q) /\ DOMAIN replayNonces # {}
    /\ FreeUnsigned(r) /\ Done(r) /\ ~Replayed(r)
    /\ IsSome(reqs[r].upstream) /\ reqs[r].status = 200
    /\ DOMAIN replayNonces = {NonceKeyOf(q)}

\* C21: a payload whose resource is not the resource URL of the requested
\* route is rejected with 400 by signature validation and is not accepted as
\* payment for that route.
C21_ResourceChecked ==
  \A r \in ReqIds : \A P \in PolicyOf(r) :
    (HasSignature(r) /\ PayloadOf(r).resource # ResourceUrl(P.path)) =>
      /\ ~IsSome(reqs[r].paymentPayload)
      /\ ~IsSome(reqs[r].receipt)
      /\ Done(r) => reqs[r].status = 400

\* the gateway would run in live mode: MOCK_PAYMENTS is set to something
\* other than "true" and "1"
WouldBeLive(env) ==
  IsSome(env["MOCK_PAYMENTS"]) /\ env["MOCK_PAYMENTS"][1] \notin {"true", "1"}

Unset(env) == {n \in {"PAY_TO", "AMOUNT_MICROSTX"} : ~IsSome(env[n])}

\* C22: when the gateway would run in live mode and PAY_TO or AMOUNT_MICROSTX
\* is unset, loading the configuration fails with an error naming a missing
\* variable; a configuration that loads with a built-in default is in mock
\* mode.
C22_LiveNeedsConfig ==
  IsSome(probe) =>
    LET env == probe[1].env
        cfg == probe[1].config
    IN /\ (WouldBeLive(env) /\ Unset(env) # {}) =>
            /\ ~cfg.ok
            /\ cfg.error[2] \in Unset(env)
       /\ (cfg.ok /\ Unset(env) # {}) => cfg.mockPayments

\* C23: after any sequence of add calls the registry holds at most one policy
\* per (path, method) pair.
C23_OnePolicyPerRoute ==
  \A i, j \in 1..Len(Registered) :
    (Registered[i].path = Registered[j].path
       /\ Registered[i].method = Registered[j].method) => i = j

\* C24: the discovery document lists every registered policy exactly once, in
\* registration order; each entry carries its policy's scheme, payTo,
\* maxAmountRequired, asset, description, mimeType and maxTimeoutSeconds,
\* network "stacks", resource = the public base URL without trailing slashes
\* followed by the policy's path, and outputSchema = the policy's schema or,
\* when it has none, a fallback with the policy's method, an empty input and
\* the single output field data of type object.
C24_Discovery ==
  (IsSome(probe) /\ "doc" \in DOMAIN probe[1]) =>
    LET all == probe[1].policies
        accepts == probe[1].doc.accepts
    IN /\ Len(accepts) = Len(all)
       /\ \A i \in 1..Len(all) :
            /\ \A f \in {"scheme", "payTo", "maxAmountRequired", "asset",
                         "description", "mimeType", "maxTimeoutSeconds"} :
                 accepts[i][f] = all[i][f]
            /\ accepts[i].network = "stacks"
            /\ accepts[i].resource = <<"https://api.example.com", all[i].path>>
            /\ IF "outputSchema" \in DOMAIN all[i]
                 THEN accepts[i].outputSchema = all[i].outputSchema
                 ELSE /\ accepts[i].outputSchema.method = all[i].method
                      /\ accepts[i].outputSchema.input = <<>>
                      /\ DOMAIN accepts[i].outputSchema.output = {"data"}
                      /\ accepts[i].outputSchema.output.data.type = "object"

C24_Witness ==
  /\ IsSome(probe) /\ "doc" \in DOMAIN probe[1]
  /\ Len(probe[1].publicBaseUrl) = 3
  /\ Len(probe[1].doc.accepts) = 3
  /\ probe[1].doc.accepts[1].outputSchema = WeatherSchema
  /\ probe[1].doc.accepts[2].outputSchema.output.data.type = "object"
  /\ probe[1].policies[3] = probe[1].policies[2]
  /\ probe[1].doc.accepts[2].resource = <<"https://api.example.com", "/proxy/api/summarize">>

\* the last set of key k is still in force at time t
Fresh(k, t) ==
  /\ IsSome(Cache.written[k])
  /\ t < Cache.written[k][1].at + Cache.written[k][1].ttlMs

\* C25: after set(k, v) with TTL t at time s, get(k) returns v and has(k) is
\* true at every time before s + t; from s + t on get(k) returns nothing,
\* has(k) is false and the read removes the entry; get and has of a key never
\* set, or deleted or cleared since, return nothing and false.
C25_CacheReads ==
  (IsSome(probe) /\ "last" \in DOMAIN probe[1] /\ IsSome(Cache.last)) =>
    LET last == Cache.last[1]
        k == last.key
    IN /\ last.op = "get" =>
            last.got = IF Fresh(k, last.at) THEN Some(Cache.written[k][1].value)
                       ELSE None
       /\ last.op = "has" => (last.got <=> Fresh(k, last.at))
       /\ ~Fresh(k, last.at) => k \notin DOMAIN Cache.store

C25_Witness ==
  /\ IsSome(probe) /\ "last" \in DOMAIN probe[1] /\ IsSome(Cache.last)
  /\ Cache.last[1].op = "has" /\ ~Cache.last[1].got
  /\ Cache.last[1].key = "a"
  /\ IsSome(Cache.written["a"])
  /\ Cache.written["a"][1].ttlMs = ReplayTtl
  /\ Cache.last[1].at = Cache.written["a"][1].at + ReplayTtl
  /\ "b" \in DOMAIN Cache.store

\* the wrapFetch call under way or over
Call == probe[1]

\* the hooks a call fired, in order
HooksFired(call) == SelectSeq(call.log, LAMBDA e : e \in HookNames)

\* the hooks a caller installed, in the order on402, onSign, onPaid
Installed(call) == SelectSeq(<<"on402", "onSign", "onPaid">>, LAMBDA h : h \in call.hooks)

CallOver(call) == call.pc \in {"returned", "thrown"}

\* the retry of the call brought a payment-response header
RetryHasHeader(call) ==
  IsSome(call.retry) /\ X402_RESPONSE \in DOMAIN call.retry[1].headers

\* position of the first e in the log, 0 when there is none
LogAt(call, e, from) ==
  LET at == {i \in from..Len(call.log) : call.log[i] = e}
  IN IF at = {} THEN 0 ELSE CHOOSE i \in at : \A j \in at : i <= j

\* what holds of every call whatever its responses: no hook when the first
\* response is not 402, and onSign before the retry is sent
HookOrder(call) ==
  /\ (IsSome(call.first) /\ call.first[1].status # 402) => HooksFired(call) = <<>>
  /\ LogAt(call, "fetch", 2) > 0 =>
       /\ "onSign" \in call.hooks => /\ LogAt(call, "onSign", 1) > 0
                                     /\ LogAt(call, "onSign", 1) < LogAt(call, "fetch", 2)
       /\ LogAt(call, "onPaid", 1) = 0 \/ LogAt(call, "onPaid", 1) > LogAt(call, "fetch", 2)

\* C26 as stated: in a call that meets a 402 and whose retry returns a
\* payment-response header, the hooks fire exactly once each in the order
\* on402, onSign, onPaid; onSign fires before the retry is sent; no hook
\* fires when the first response is not 402.
C26_AsStated ==
  (IsSome(probe) /\ "log" \in DOMAIN probe[1]) =>
    /\ HookOrder(Call)
    /\ (CallOver(Call) /\ RetryHasHeader(Call)) => HooksFired(Call) = Installed(Call)

\* C26 (amended): the same for a call whose retry returns a payment-response
\* header that is not empty and decodes as base64 JSON.
C26_HooksInOrder ==
  (IsSome(probe) /\ "log" \in DOMAIN probe[1]) =>
    /\ HookOrder(Call)
    /\ ( /\ CallOver(Call) /\ RetryHasHeader(Call)
         /\ Len(Call.retry[1].headers[X402_RESPONSE]) > 0
         /\ IsSome(fromBase64(Call.retry[1].headers[X402_RESPONSE])) )
         => HooksFired(Call) = Installed(Call)

C26_Witness ==
  /\ IsSome(probe) /\ "log" \in DOMAIN probe[1]
  /\ Call.pc = "returned" /\ RetryHasHeader(Call)
  /\ Call.log = <<"fetch", "on402", "onSign", "fetch", "onPaid">>
  /\ Call.first[1].headers = NoHeaders

\* C27: the result has paid = true exactly when a 402 was intercepted and the
\* payment was made (the retry was accepted and returned a receipt); it has
\* paid = false and no receipt when the first response is not 402.
C27_PaidMeansPaid ==
  (IsSome(probe) /\ "result" \in DOMAIN probe[1] /\ IsSome(Call.result)) =>
    LET result == Call.result[1] IN
      /\ result.paid <=>
           /\ Call.first[1].status = 402
           /\ IsSome(Call.retry)
           /\ Call.retry[1].status \in 200..299
           /\ IsSome(result.receipt)
      /\ Call.first[1].status # 402 => ~result.paid /\ ~IsSome(result.receipt)

\* C28: an offer, a payload or a receipt written as base64 JSON and read back
\* is the object that was written.
C28_RoundTrip ==
  (IsSome(probe) /\ "decoded" \in DOMAIN probe[1]) =>
    probe[1].decoded = Some(probe[1].original)

C28_Witness ==
  /\ IsSome(probe) /\ "decoded" \in DOMAIN probe[1]
  /\ probe[1].kind = "receipt"
  /\ "txHash" \in DOMAIN probe[1].original
  /\ probe[1].decoded = Some(probe[1].original)

\* C29: the step that answers a request from the idempotency cache changes
\* neither cache (the entry served keeps its value and its expiry), and the
\* request has entered no stage after the idempotency stage: its nonce was
\* not looked at, no facilitator or upstream was called for it and no receipt
\* was made for it.
C29_HitRunsNothing ==
  [][ \A r \in ReqIds :
        (reqs[r].answeredBy # "idempotency" /\ reqs'[r].answeredBy = "idempotency") =>
          /\ replayNonces' = replayNonces
          /\ idempotencyCache' = idempotencyCache
          /\ reqs'[r].entered = <<"idempotency">>
          /\ reqs'[r].calls = <<>>
          /\ ~IsSome(reqs'[r].noncePassed)
          /\ ~IsSome(reqs'[r].upstream)
          /\ ~IsSome(reqs'[r].receipt) ]_vars

C29_Witness ==
  \E r \in ReqIds :
    /\ reqs[r].answeredBy = "idempotency" /\ reqs[r].status = 200
    /\ IsSome(Header(reqs[r].resHeaders, X402_RESPONSE))
    /\ IsSome(reqs[r].signed)
    /\ reqs[r].doneAt > 0
    /\ replayNonces # <<>>

\* request r was answered 400 by the validation stage or 409 by the replay
\* stage
Refused(r) ==
  /\ Done(r)
  /\ \/ reqs[r].answeredBy = "validateSignature" /\ reqs[r].status = 400
     \/ reqs[r].answeredBy = "replayProtection" /\ reqs[r].status = 409

\* C30: the step that answers a request 400 in the validation stage or 409 in
\* the replay stage changes neither cache, and the steps that brought the
\* request there changed no entry of either cache that had not expired; no
\* facilitator and no upstream was called for it.  The nonce of a payload
\* answered 400 is not recorded: a later request with the same (nonce, memo)
\* that no other request carried passes the replay stage, and in mock mode
\* it is given its receipt.
C30_RefusalChangesNothing ==
  [][ \A r \in ReqIds :
        /\ (~Refused(r) /\ Refused(r)') =>
             /\ replayNonces' = replayNonces
             /\ idempotencyCache' = idempotencyCache
             /\ reqs'[r].calls = <<>>
             /\ ~IsSome(reqs'[r].upstream)
             /\ ~IsSome(reqs'[r].receipt)
             /\ \A i \in 1..Len(reqs'[r].entered) :
                  reqs'[r].entered[i] \in
                    {"idempotency", "validateSignature", "replayProtection"}
        /\ (cur' = r /\ reqs'[r].pc \in {"idempotency", "validateSignature",
                                         "replayProtection"}) =>
             /\ replayNonces' = replayNonces
             /\ TtlSweep(idempotencyCache', now) = TtlSweep(idempotencyCache, now)
        /\ \A q \in ReqIds :
             ( /\ Refused(q)' /\ reqs'[q].status = 400 /\ HasSignature(q)'
               /\ q \in reqs'[r].sawDone /\ SamePair(q, r)'
               /\ \A p \in ReqIds \ {q, r} : ~SamePair(p, r)'
               /\ IsSome(reqs'[r].noncePassed) )
               => /\ Passed(r)'
                  /\ (mockPayments /\ Done(r)') => IsSome(reqs'[r].receipt) ]_vars

C30_Witness ==
  \E q, r \in ReqIds :
    /\ Refused(q) /\ reqs[q].status = 400 /\ HasSignature(q)
    /\ IsSome(Token(q))
    /\ q \in reqs[r].sawDone /\ SamePair(q, r)
    /\ Passed(r) /\ Done(r) /\ reqs[r].status = 200 /\ IsSome(reqs[r].receipt)
    /\ replayNonces # <<>>

\* C31: a request that missed the idempotency cache and was sent a 2xx
\* response, by a local handler or relayed by the proxy, as JSON or not, has
\* that response stored under its key for the idempotency TTL.
C31_MissStoresSuccess ==
  \A r \in ReqIds :
    ( /\ Done(r) /\ IsSome(reqs[r].hook)
      /\ reqs[r].status >= 200 /\ reqs[r].status < 300
      /\ now < reqs[r].doneAt + IdempotencyTtl )
      => TtlHas(idempotencyCache, reqs[r].hook[1], now)

\* C32: a request is answered from the idempotency cache only with the
\* response of an earlier request that had the same method (upper-cased), the
\* same path and the same idempotency-key, whatever the paths and the keys.
C32_OwnEntryOnly ==
  \A r \in ReqIds :
    Replayed(r) =>
      \E q \in reqs[r].sawDone :
        SameTriple(q, r) /\ Is2xx(q) /\ ~Replayed(q) /\ SameResponse(q, r)

\* the stages of the protected stack, in the order they are mounted
StageOrder ==
  <<"idempotency", "validateSignature", "replayProtection", "paymentRequired">>

\* request r has been sent a response
Responded(r) == reqs[r].via # ""

\* C33: the stages a request has entered are the first stages of the order
\* idempotency, signature validation, replay protection, payment gate,
\* handler, each once; the stage that sends the response is the last one the
\* request enters; and a request that has been sent a response is over: no
\* stage runs for it and nothing is sent to it again.
C33_PipelineOrder ==
  [][ \A r \in ReqIds :
        /\ LET entered == reqs'[r].entered IN
             /\ Len(entered) <= Len(StageOrder) + 1
             /\ \A i \in 1..Len(entered) :
                  IF i <= Len(StageOrder) THEN entered[i] = StageOrder[i]
                  ELSE entered[i] \in {"premiumEcho", "proxyHandler"}
             /\ Responded(r)' =>
                  /\ Done(r)' /\ cur' # r
                  /\ Len(entered) > 0
                  /\ reqs'[r].answeredBy \in {entered[Len(entered)], "express"}
             /\ Done(r)' => Responded(r)'
        /\ Responded(r) => reqs'[r] = reqs[r] ]_vars

C33_Witness ==
  /\ \E r \in ReqIds :
       /\ Responded(r) /\ reqs[r].answeredBy = "replayProtection"
       /\ reqs[r].entered = SubSeq(StageOrder, 1, 3)
  /\ \E r \in ReqIds :
       /\ Responded(r) /\ reqs[r].answeredBy = "premiumEcho"
       /\ reqs[r].entered = StageOrder \o <<"premiumEcho">>

\* C34: in live mode a request on a priced route enters its handler only
\* with a receipt whose settled flag is true.
C34_SettledBeforeHandler ==
  \A r \in ReqIds :
    (~mockPayments /\ Priced(r) /\ HandlerEntered(r) /\ ~Replayed(r)) =>
      /\ IsSome(reqs[r].receipt)
      /\ reqs[r].receipt[1].settled

\* the upstream resource a target names: a trailing slash apart
Resource(target) ==
  CASE target = "/api/weather/" -> "/api/weather"
    [] OTHER -> target

\* the upstream resources the proxy policies sell
PricedResources ==
  { upstreamPath(policies[i].path) :
      i \in {j \in 1..Len(policies) : policies[j].path \notin {"/v1/premium/echo"}} }

\* C35: a request the proxy forwards to the upstream resource of a priced
\* route was matched to the route's policy and paid for: it has a receipt,
\* and without a payment it is answered 402 and not forwarded.
C35_VariantsPay ==
  \A r \in ReqIds :
    (IsSome(reqs[r].upstream)
       /\ Resource(reqs[r].upstream[1].target) \in PricedResources) =>
      /\ HasSignature(r)
      /\ IsSome(reqs[r].receipt)

\* the requests that passed the replay stage with nonce key k
PassedWith(k) == {r \in ReqIds : Passed(r) /\ NonceKeyOf(r) = k}

\* C36: a recorded nonce key expires one replay TTL after the latest request
\* that passed the replay stage with it, whatever requests were answered 409
\* in between (the step that answers 409 leaves the nonce cache as it is); a
\* request is answered 409 only within the TTL of such a recording, and a
\* request with the same (nonce, memo) at or after the TTL of every earlier
\* recording passes and records the key anew.
C36_ExpiryFixed ==
  [][ /\ \A k \in DOMAIN replayNonces' :
           /\ PassedWith(k)' # {}
           /\ \E r \in PassedWith(k)' :
                /\ replayNonces'[k].expiresAt = reqs'[r].at + ReplayTtl
                /\ \A q \in PassedWith(k)' : reqs'[q].at <= reqs'[r].at
      /\ \A r \in ReqIds :
           /\ (~Rejected(r) /\ Rejected(r)') => replayNonces' = replayNonces
           /\ Rejected(r)' =>
                \E q \in ReqIds \ {r} :
                  /\ Passed(q)' /\ SamePair(q, r)'
                  /\ reqs'[q].at <= reqs'[r].at
                  /\ reqs'[r].at < reqs'[q].at + ReplayTtl
           /\ ( /\ IsSome(reqs'[r].noncePassed)
                /\ \E q \in ReqIds \ {r} :
                     Passed(q)' /\ SamePair(q, r)' /\ reqs'[q].at <= reqs'[r].at
                /\ \A q \in ReqIds \ {r} :
                     (Passed(q)' /\ SamePair(q, r)' /\ reqs'[q].at <= reqs'[r].at)
                       => reqs'[r].at >= reqs'[q].at + ReplayTtl )
                => Passed(r)' ]_vars

C36_Witness ==
  \E q, r \in ReqIds :
    /\ q # r /\ SamePair(q, r) /\ Passed(q) /\ Passed(r)
    /\ reqs[r].at = reqs[q].at + ReplayTtl
    /\ NonceKeyOf(r) \in DOMAIN replayNonces
    /\ replayNonces[NonceKeyOf(r)].expiresAt = reqs[r].at + ReplayTtl
    /\ Done(r) /\ reqs[r].status = 200

\* C37: every request that has arrived is eventually sent a response, in
\* mock and in live mode, whatever the other requests are doing, provided
\* every facilitator call and every upstream call is answered or fails.
C37_EveryRequestAnswered ==
  \A r \in ReqIds : (reqs[r].pc # "idle") ~> Responded(r)

C37_Witness ==
  \E q, r \in ReqIds :
    /\ ~mockPayments
    /\ Responded(r) /\ Len(reqs[r].calls) = 2 /\ IsSome(reqs[r].upstream)
    /\ q \in reqs[r].sawDone
    /\ reqs[q].at = reqs[r].at

\* the entries of a store that have not expired at time t
Live(store, t) == {k \in DOMAIN store : t < store[k].expiresAt}

\* C38: a sweep removes the entries whose expiry time is at or before the
\* current time and leaves every other entry as it is; size sweeps first and
\* returns the number of entries that have not expired.
C38_SweepAndSize ==
  [][ (probe' # None /\ "timer" \in DOMAIN probe'[1] /\ IsSome(TtlCache.last')
       /\ TtlCache.last'[1].op \in {"sweep", "interval", "size"}) =>
        /\ DOMAIN TtlCache.store' = Live(TtlCache.store, now)
        /\ \A k \in DOMAIN TtlCache.store' : TtlCache.store'[k] = TtlCache.store[k]
        /\ TtlCache.last'[1].op = "size" =>
             /\ TtlCache.last'[1].got = Cardinality(Live(TtlCache.store, now))
             /\ TtlCache.last'[1].got
                  = Cardinality({k \in CacheKeys :
                                   /\ IsSome(TtlCache.written[k])
                                   /\ now < TtlCache.written[k][1].at
                                              + TtlCache.written[k][1].ttlMs}) ]_vars

C38_Witness ==
  /\ IsSome(probe) /\ "timer" \in DOMAIN probe[1] /\ IsSome(TtlCache.last)
  /\ TtlCache.last[1].op = "size" /\ TtlCache.last[1].got = 1
  /\ \E k \in CacheKeys :
       /\ IsSome(TtlCache.written[k])
       /\ now = TtlCache.written[k][1].at + TtlCache.written[k][1].ttlMs
       /\ TtlCache.written[k][1].ttlMs > 0

\* the last set of key k of the cache with its sweeper is in force at time t
InForce(k, t) ==
  /\ IsSome(TtlCache.written[k])
  /\ t < TtlCache.written[k][1].at + TtlCache.written[k][1].ttlMs

\* C39: whatever sweeps ran before it, by call or by the timer, or none, and
\* whether or not destroy stopped the timer, a get returns the value last set
\* for the key while that set is in force and nothing otherwise, and has
\* tells whether it is in force; the timer's sweep runs only while the timer
\* is set.
C39_SweeperUnseen ==
  (IsSome(probe) /\ "timer" \in DOMAIN probe[1] /\ IsSome(TtlCache.last)) =>
    LET last == TtlCache.last[1] IN
      /\ last.op = "get" =>
           last.got = IF InForce(last.key, last.at)
                        THEN Some(TtlCache.written[last.key][1].value) ELSE None
      /\ last.op = "has" => (last.got <=> InForce(last.key, last.at))
      /\ last.op = "interval" => TtlCache.timer

C39_Witness ==
  /\ IsSome(probe) /\ "timer" \in DOMAIN probe[1] /\ IsSome(TtlCache.last)
  /\ ~TtlCache.timer
  /\ TtlCache.last[1].op = "get" /\ TtlCache.last[1].got = Some("hello")
  /\ TtlCache.written[TtlCache.last[1].key][1].at = MaxTime
  /\ \E k \in DOMAIN TtlCache.store : now >= TtlCache.store[k].expiresAt

\* the registered policies with path `path` and method `upper`, by position
Literal(registry, path, upper) ==
  {i \in 1..Len(registry) : registry[i].path = path /\ registry[i].method = upper}

\* C40: match(path, method) returns a registered policy whose path is the
\* given path and whose method is the given method upper-cased when there is
\* one (the first registered), and nothing when there is none, a path that
\* only extends, shortens or re-cases a registered path included; the call
\* leaves the registry as it was.
C40_MatchLiteral ==
  [][ (probe' # None /\ "matched" \in DOMAIN probe'[1]) =>
        LET call == probe'[1].matched[1]
            upper == CASE call.method \in {"GET", "get", "Get"} -> "GET"
                       [] call.method \in {"POST", "post"} -> "POST"
                       [] call.method = "HEAD" -> "HEAD"
            hits == Literal(Registered, call.path, upper)
        IN /\ Registered' = Registered
           /\ hits = {} <=> call.result = None
           /\ hits # {} =>
                /\ call.result[1].path = call.path
                /\ call.result[1].method = upper
                /\ \E i \in hits : /\ Registered[i] = call.result[1]
                                   /\ \A j \in hits : i <= j ]_vars

C40_Witness ==
  /\ IsSome(probe) /\ "matched" \in DOMAIN probe[1]
  /\ Len(Registered) = MaxPolicies
  /\ probe[1].matched[1].method = "get"
  /\ probe[1].matched[1].path = "/proxy/api/weather"
  /\ IsSome(probe[1].matched[1].result)
  /\ probe[1].matched[1].result[1] = Registered[2]
  /\ Registered[1].path = "/proxy/api/weather"

====
